---------------------------- MODULE Spec2Model ----------------------------
(***************************************************************************)
(* A model of ugly_midi/converter.py: the duration table, the time         *)
(* arithmetic, the note-name codec, the forward converter                  *)
(* (process_measures) and the reverse converter (create_json_from_midi,    *)
(* process_measure_with_clef_balancing,                                    *)
(* distribute_events_with_measure_splitting).                              *)
(*                                                                         *)
(* Numbers.  The program computes in floating point; the model computes    *)
(* exactly, in fixed point: a beat count is an integer number of           *)
(* 1/BeatUnit beats and a time is an integer number of 1/SecUnit seconds.  *)
(* The tempi, resolutions and times the model draws are dyadic, so that    *)
(* every product and quotient of the program is exact both in the model    *)
(* and in IEEE doubles.                                                    *)
(***************************************************************************)
EXTENDS Integers, Sequences, FiniteSets, TLC

VARIABLES
    pc,                   \* position of the conversion that is running
    call,                 \* the last call of a pure function: name, arguments, result
    tempo,                \* tempo / manual_tempo (BPM)
    time_signature,       \* [numerator, denominator]
    quantize_resolution,  \* create_json_from_midi's quantize_resolution (beat units)
    pm_instruments,       \* the number of instruments of the timed input (pm.instruments)
    pm_notes,             \* the notes of the timed input (pm.instruments[*].notes)
    raised,               \* the message of the ValueError a conversion raised, "" if none
    json_files_data,      \* create_midi_from_multiple_json: the parts (their midiChannel)
    file_idx,             \* create_midi_from_multiple_json: the loop over the parts
    used_channels,        \* create_midi_from_multiple_json: used_channels
    channels,             \* create_midi_from_multiple_json: the channel given to each part
    all_notes,            \* create_json_from_midi: the quantized, sorted notes
    measure_idx,          \* the measure loop of create_json_from_midi / process_measures
    note_events,          \* distribute_...: the events not yet distributed
    result_measures,      \* distribute_...: result_measures
    current_measure_data, \* distribute_...: current_measure_data
    current_clef_loads,   \* distribute_...: current_clef_loads
    current_measure_idx,  \* distribute_...: current_measure_idx
    note_id_counter,      \* distribute_...: note_id_counter
    last_step,            \* history: what the last distribute step did
    measures,             \* the symbolic document's measures (output of reverse, input of forward)
    measure_notes,        \* process_measures: the sorted events of the measure still to process
    clef_positions,       \* process_measures: clef_positions
    notes_by_clef,        \* process_measures: notes_by_clef
    measure_durations     \* process_measures: measure_durations

vars == <<pc, call, tempo, time_signature, quantize_resolution, pm_notes, all_notes,
          measure_idx, note_events, result_measures, current_measure_data,
          current_clef_loads, current_measure_idx, note_id_counter, last_step,
          measures, measure_notes, clef_positions, notes_by_clef, measure_durations,
          pm_instruments, raised, json_files_data, file_idx, used_channels, channels>>

-----------------------------------------------------------------------------
(* Fixed point *)

\* one beat, in the model's beat units (1/16000 beat: 0.001 and 1/128 are integers)
BeatUnit == 16 * 1000

\* one second, in the model's time units; at tempo 120 one beat unit lasts one time unit
SecUnit == 2 * BeatUnit

Abs(x) == IF x < 0 THEN 0 - x ELSE x

Max(a, b) == IF a > b THEN a ELSE b

Min(a, b) == IF a < b THEN a ELSE b

\* Python's round(num / den) for den > 0: to the nearest integer, an exact half to
\* the even neighbour
RoundHalfToEven(num, den) ==
    LET q == num \div den
        r == num % den
    IN  IF 2 * r < den THEN q
        ELSE IF 2 * r > den THEN q + 1
        ELSE IF q % 2 = 0 THEN q ELSE q + 1

PyRound(num, den) == RoundHalfToEven(num, den)

-----------------------------------------------------------------------------
(* Duration table *)

\* DURATION_TO_BEATS, in insertion order
DURATION_TO_BEATS ==
    << <<"w", 4 * BeatUnit>>, <<"h", 2 * BeatUnit>>, <<"q", BeatUnit>>,
       <<"8", BeatUnit \div 2>>, <<"16", BeatUnit \div 4>>, <<"32", BeatUnit \div 8>>,
       <<"w.", 6 * BeatUnit>>, <<"h.", 3 * BeatUnit>>, <<"q.", (3 * BeatUnit) \div 2>>,
       <<"8.", (3 * BeatUnit) \div 4>>, <<"16.", (3 * BeatUnit) \div 8>> >>

\* SAFE_DURATIONS of beats_to_duration_symbol_vexflow_safe, in insertion order
SAFE_DURATIONS ==
    << <<"w", 4 * BeatUnit>>, <<"h.", 3 * BeatUnit>>, <<"h", 2 * BeatUnit>>,
       <<"q.", (3 * BeatUnit) \div 2>>, <<"q", BeatUnit>>, <<"8.", (3 * BeatUnit) \div 4>>,
       <<"8", BeatUnit \div 2>>, <<"16.", (3 * BeatUnit) \div 8>>,
       <<"16", BeatUnit \div 4>>, <<"32", BeatUnit \div 8>> >>

DurationKeys == {DURATION_TO_BEATS[i][1] : i \in 1..Len(DURATION_TO_BEATS)}

HasKey(items, symbol) == \E i \in 1..Len(items) : items[i][1] = symbol

\* DURATION_TO_BEATS.get(symbol, 1.0)
DurationBeats(symbol) ==
    IF HasKey(DURATION_TO_BEATS, symbol)
    THEN LET i == CHOOSE j \in 1..Len(DURATION_TO_BEATS) : DURATION_TO_BEATS[j][1] = symbol
         IN  DURATION_TO_BEATS[i][2]
    ELSE BeatUnit

\* a diff larger than any the loops below meet: float('inf')
Infinity == 1000 * BeatUnit

\* the loop "for symbol, duration_beats in items: diff = abs(beats - duration_beats);
\* if diff < closest_diff: ..." from item i on, with the running closest pair
RECURSIVE ClosestFrom(_, _, _, _, _)
ClosestFrom(items, beats, i, closest_duration, closest_diff) ==
    IF i > Len(items) THEN closest_duration
    ELSE LET diff == Abs(beats - items[i][2])
         IN  IF diff < closest_diff
             THEN ClosestFrom(items, beats, i + 1, items[i][1], diff)
             ELSE ClosestFrom(items, beats, i + 1, closest_duration, closest_diff)

\* the same loop with "diff <= closest_diff": the last of the nearest codes wins
RECURSIVE ClosestFromLast(_, _, _, _, _)
ClosestFromLast(items, beats, i, closest_duration, closest_diff) ==
    IF i > Len(items) THEN closest_duration
    ELSE LET diff == Abs(beats - items[i][2])
         IN  IF diff <= closest_diff
             THEN ClosestFromLast(items, beats, i + 1, items[i][1], diff)
             ELSE ClosestFromLast(items, beats, i + 1, closest_duration, closest_diff)

beats_to_duration_symbol_last(beats) ==
    ClosestFromLast(DURATION_TO_BEATS, beats, 1, "q", Infinity)

beats_to_duration_symbol(beats) ==
    ClosestFrom(DURATION_TO_BEATS, beats, 1, "q", Infinity)

\* 0.001 beat, the exact-match tolerance of beats_to_duration_symbol_improved
ExactTolerance == BeatUnit \div 1000

NoDot(item) == item[1] \notin {"w.", "h.", "q.", "8.", "16."}

beats_to_duration_symbol_improved(beats, allow_compound) ==
    IF \E i \in 1..Len(DURATION_TO_BEATS) :
           Abs(beats - DURATION_TO_BEATS[i][2]) < ExactTolerance
    THEN LET i == CHOOSE j \in 1..Len(DURATION_TO_BEATS) :
                      /\ Abs(beats - DURATION_TO_BEATS[j][2]) < ExactTolerance
                      /\ \A k \in 1..(j - 1) :
                             ~(Abs(beats - DURATION_TO_BEATS[k][2]) < ExactTolerance)
         IN  DURATION_TO_BEATS[i][1]
    ELSE LET duration_items == IF allow_compound THEN DURATION_TO_BEATS
                               ELSE SelectSeq(DURATION_TO_BEATS, NoDot)
         IN  ClosestFrom(duration_items, beats, 1, "q", Infinity)

-----------------------------------------------------------------------------
(* Time arithmetic *)

\* beats_to_seconds: (beats * 60.0) / tempo, from beat units to time units
beats_to_seconds(beats, bpm) == (beats * 60 * (SecUnit \div BeatUnit)) \div bpm

\* a call of beats_to_seconds with any tempo: the division raises ZeroDivisionError for
\* tempo 0 and returns a negative time for a negative tempo
beats_to_seconds_result(beats, bpm) ==
    IF bpm = 0 THEN [raised |-> TRUE, value |-> 0]
    ELSE IF bpm > 0 THEN [raised |-> FALSE, value |-> beats_to_seconds(beats, bpm)]
    ELSE [raised |-> FALSE, value |-> 0 - beats_to_seconds(beats, 0 - bpm)]

\* (seconds * tempo) / 60.0, from time units to beat units
seconds_to_beats(seconds, bpm) == (seconds * bpm) \div (60 * (SecUnit \div BeatUnit))

\* the grid index round(beats / quantize_resolution) of quantize_time, where
\* beats = (time_seconds * tempo) / 60.0
QuantizeIndex(time_seconds, resolution, bpm) ==
    PyRound(time_seconds * bpm, 60 * (SecUnit \div BeatUnit) * resolution)

\* the quantized beats returned without the conversion back to seconds
quantize_time_in_beats(time_seconds, resolution, bpm) ==
    QuantizeIndex(time_seconds, resolution, bpm) * resolution

quantize_time(time_seconds, resolution, bpm) ==
    beats_to_seconds(QuantizeIndex(time_seconds, resolution, bpm) * resolution, bpm)

\* the duration without the floor "max(duration_beats, quantize_resolution)"
duration_without_minimum(start_time, end_time, bpm, resolution) ==
    seconds_to_beats(quantize_time(end_time, resolution, bpm)
                     - quantize_time(start_time, resolution, bpm), bpm)

calculate_duration_with_quantization(start_time, end_time, bpm, resolution) ==
    LET quantized_start == quantize_time(start_time, resolution, bpm)
        quantized_end == quantize_time(end_time, resolution, bpm)
        duration_seconds == quantized_end - quantized_start
        duration_beats == seconds_to_beats(duration_seconds, bpm)
    IN  Max(duration_beats, resolution)

-----------------------------------------------------------------------------
(* Note-name codec.  A name is text; the model keeps it as its tokens: paren says  *)
(* whether the text is wrapped in parentheses, toks are the whitespace-separated   *)
(* spellings between them (the whole text when there are no parentheses, no token  *)
(* for the empty text), and a spelling is letter, accidental and octave.           *)

\* pretty_midi.note_number_to_name: semitone names, octave = number // 12 - 1
SemitoneLetters == <<"C", "C", "D", "D", "E", "F", "F", "G", "G", "A", "A", "B">>

SemitoneAccidentals == <<"", "#", "", "#", "", "", "#", "", "#", "", "#", "">>

note_number_to_name(note_number) ==
    [letter |-> SemitoneLetters[(note_number % 12) + 1],
     acc |-> SemitoneAccidentals[(note_number % 12) + 1],
     octave |-> (note_number \div 12) - 1]

\* pretty_midi.note_name_to_number: pitch_map, acc_map, 12 * (octave + 1) + pitch + offset
PitchMap(letter) ==
    CASE letter = "C" -> 0 [] letter = "D" -> 2 [] letter = "E" -> 4 [] letter = "F" -> 5
      [] letter = "G" -> 7 [] letter = "A" -> 9 [] letter = "B" -> 11 [] OTHER -> 0 - 1

AccMap(acc) ==
    CASE acc = "#" -> 1 [] acc = "" -> 0 [] acc = "b" -> 0 - 1 [] acc = "!" -> 0 - 1

\* a spelling pretty_midi resolves
Resolvable(tok) == PitchMap(tok.letter) >= 0 /\ tok.acc \in {"#", "", "b", "!"}

note_name_to_number(tok) == 12 * (tok.octave + 1) + PitchMap(tok.letter) + AccMap(tok.acc)

EmptyName == [paren |-> FALSE, toks |-> <<>>]

\* sorted(midi_notes): insertion sort of a sequence of integers
RECURSIVE SortedInts(_)
SortedInts(s) ==
    IF Len(s) <= 1 THEN s
    ELSE LET rest == SortedInts(Tail(s))
             x == Head(s)
             k == Cardinality({i \in 1..Len(rest) : rest[i] < x})
         IN  SubSeq(rest, 1, k) \o <<x>> \o SubSeq(rest, k + 1, Len(rest))

midi_notes_to_name(midi_notes) ==
    IF Len(midi_notes) = 0 THEN EmptyName
    ELSE LET sorted == SortedInts(midi_notes)
             note_names == [i \in 1..Len(sorted) |-> note_number_to_name(sorted[i])]
         IN  IF Len(note_names) = 1 THEN [paren |-> FALSE, toks |-> note_names]
             ELSE IF Len(note_names) > 1 THEN [paren |-> TRUE, toks |-> note_names]
             ELSE EmptyName

\* parse_note_name: [ok |-> FALSE] stands for the exception note_name_to_number raises;
\* text without parentheses is handed to note_name_to_number whole
parse_note_name(name) ==
    IF name.paren
    THEN IF \A i \in 1..Len(name.toks) : Resolvable(name.toks[i])
         THEN [ok |-> TRUE,
               notes |-> [i \in 1..Len(name.toks) |-> note_name_to_number(name.toks[i])]]
         ELSE [ok |-> FALSE, notes |-> <<>>]
    ELSE IF Len(name.toks) = 1 /\ Resolvable(name.toks[1])
         THEN [ok |-> TRUE, notes |-> <<note_name_to_number(name.toks[1])>>]
         ELSE [ok |-> FALSE, notes |-> <<>>]

-----------------------------------------------------------------------------
(* Clef allocation *)

\* determine_clef
determine_clef(midi_note) == IF midi_note >= 60 THEN "treble" ELSE "bass"

\* the band test left out: any note moves to the less loaded stave
choose_clef_without_band(midi_note, current_loads, beats_per_clef_limit) ==
    LET default_clef == IF midi_note >= 60 THEN "treble" ELSE "bass"
    IN  IF default_clef = "treble" /\ current_loads.treble > current_loads.bass + BeatUnit
        THEN "bass"
        ELSE IF default_clef = "bass" /\ current_loads.bass > current_loads.treble + BeatUnit
        THEN "treble"
        ELSE default_clef

\* choose_clef_with_load_balancing
choose_clef_with_load_balancing(midi_note, current_loads, beats_per_clef_limit) ==
    LET default_clef == IF midi_note >= 60 THEN "treble" ELSE "bass"
        treble_load == current_loads.treble
        bass_load == current_loads.bass
    IN  IF default_clef = "treble" /\ treble_load > bass_load + BeatUnit
        THEN IF 55 <= midi_note /\ midi_note <= 65 THEN "bass" ELSE default_clef
        ELSE IF default_clef = "bass" /\ bass_load > treble_load + BeatUnit
        THEN IF 55 <= midi_note /\ midi_note <= 65 THEN "treble" ELSE default_clef
        ELSE default_clef

\* notes.sort(key=lambda x: x['midi_note']): a stable sort of note records by pitch
RECURSIVE SortByPitch(_)
SortByPitch(s) ==
    IF Len(s) <= 1 THEN s
    ELSE LET rest == SortByPitch(Tail(s))
             x == Head(s)
             k == Cardinality({i \in 1..Len(rest) : rest[i].midi_note < x.midi_note})
         IN  SubSeq(rest, 1, k) \o <<x>> \o SubSeq(rest, k + 1, Len(rest))

\* the clear cases left out: every chord is balanced by the loads
choose_chord_clef_by_load(notes, current_loads, beats_per_clef_limit) ==
    IF Len(notes) = 0 THEN "treble"
    ELSE LET sorted == SortByPitch(notes)
             lowest == sorted[1].midi_note
         IN  IF current_loads.treble > current_loads.bass + (3 * BeatUnit) \div 2 THEN "bass"
             ELSE IF current_loads.bass > current_loads.treble + (3 * BeatUnit) \div 2
             THEN "treble"
             ELSE IF lowest < 60 THEN "bass"
             ELSE "treble"

\* choose_chord_clef_with_load_balancing, on the sorted notes
choose_chord_clef_with_load_balancing(notes, current_loads, beats_per_clef_limit) ==
    IF Len(notes) = 0 THEN "treble"
    ELSE LET sorted == SortByPitch(notes)
             lowest == sorted[1].midi_note
             highest == sorted[Len(sorted)].midi_note
             treble_load == current_loads.treble
             bass_load == current_loads.bass
         IN  IF highest < 57 THEN "bass"
             ELSE IF lowest >= 67 THEN "treble"
             ELSE IF treble_load > bass_load + (3 * BeatUnit) \div 2 THEN "bass"
             ELSE IF bass_load > treble_load + (3 * BeatUnit) \div 2 THEN "treble"
             ELSE IF lowest < 60 THEN "bass"
             ELSE "treble"

\* beats_to_duration_symbol_vexflow_safe
beats_to_duration_symbol_vexflow_safe(beats, max_beats_per_measure) ==
    LET clamped == Max(BeatUnit \div 8, Min(beats, max_beats_per_measure))
    IN  IF clamped >= 6 * BeatUnit THEN "w"
        ELSE ClosestFrom(SAFE_DURATIONS, clamped, 1, "q", Infinity)

\* the 0.01 beat tolerance of the capacity checks
CapacityTolerance == BeatUnit \div 100

\* beats_per_clef_limit / max_beats: (numerator * 4.0) / denominator
BeatsPerMeasure(ts) == (ts.numerator * 4 * BeatUnit) \div ts.denominator

\* validate_measure_for_vexflow: the beats of all the events of the measure together
RECURSIVE TotalBeats(_)
TotalBeats(measure_data) ==
    IF measure_data = <<>> THEN 0
    ELSE DurationBeats(Head(measure_data).duration) + TotalBeats(Tail(measure_data))

validate_measure_for_vexflow(measure_data, ts) ==
    LET max_beats == BeatsPerMeasure(ts)
        total_beats == TotalBeats(measure_data)
    IN  [isValid |-> total_beats <= max_beats + CapacityTolerance,
         totalBeats |-> total_beats,
         maxBeats |-> max_beats,
         overflow |-> Max(0, total_beats - max_beats)]

-----------------------------------------------------------------------------
(* Reverse converter: the timed input *)

\* the most notes of a timed input
MaxNotes == 3

\* the most instruments of a timed input
MaxInstruments == 2

\* the inputs' (tempo, time signature, quantize_resolution); resolutions in beat units:
\* 0.125 (the default) and 1/128
Configs ==
    << [tempo |-> 120, numerator |-> 4, denominator |-> 4, resolution |-> BeatUnit \div 8],
       [tempo |-> 120, numerator |-> 7, denominator |-> 8, resolution |-> BeatUnit \div 8],
       [tempo |-> 60, numerator |-> 3, denominator |-> 4, resolution |-> BeatUnit \div 8],
       [tempo |-> 120, numerator |-> 4, denominator |-> 4, resolution |-> BeatUnit \div 128] >>

\* a timed note: start and end in time units, pitch
TimedNote(s, e, p) == [start |-> s, end |-> e, pitch |-> p]

\* the timed notes the inputs are made of (at tempo 120 a beat lasts BeatUnit time units)
NoteUniverse ==
    << TimedNote(0, 4 * BeatUnit, 48), TimedNote(0, 4 * BeatUnit, 62),
       TimedNote(0, 4 * BeatUnit, 72),
       TimedNote(0, (7 * BeatUnit) \div 2, 48), TimedNote(0, (7 * BeatUnit) \div 2, 72),
       TimedNote(BeatUnit \div 128, 4 * BeatUnit + BeatUnit \div 128, 72),
       TimedNote(BeatUnit, 2 * BeatUnit, 58), TimedNote(BeatUnit, 2 * BeatUnit, 62),
       TimedNote(BeatUnit, 2 * BeatUnit, 72),
       TimedNote(8 * BeatUnit, 9 * BeatUnit, 48), TimedNote(8 * BeatUnit, 9 * BeatUnit, 72),
       TimedNote(0, (5 * BeatUnit) \div 8, 62),
       TimedNote(2 * BeatUnit, 6 * BeatUnit, 62),
       TimedNote((7 * BeatUnit) \div 2, (9 * BeatUnit) \div 2, 72),
       TimedNote(8 * BeatUnit, 12 * BeatUnit, 72),
       TimedNote(BeatUnit \div 128, BeatUnit + BeatUnit \div 128, 72) >>

\* the inputs: the notes of an instrument, in a fixed order (the converter sorts them)
NoteLists ==
    {s \in UNION {[1..n -> 1..Len(NoteUniverse)] : n \in 0..MaxNotes} :
        \A i \in 1..(Len(s) - 1) : s[i] <= s[i + 1]}

\* the most notes of a run
MaxRun == 10

\* a further input: a run of n notes of a 1/16 s each, one after the other, pitch 72
Run(n) == [i \in 1..n |-> TimedNote((i - 1) * (SecUnit \div 16), i * (SecUnit \div 16), 72)]

-----------------------------------------------------------------------------
(* Reverse converter: create_json_from_midi *)

\* measure_duration_seconds = (4.0 * 60.0) / tempo
MeasureDurationSeconds(bpm) == beats_to_seconds(4 * BeatUnit, bpm)

\* the note record appended to all_notes; src is the note's place in the input (history)
QuantizedNote(note, src, resolution, bpm) ==
    LET quantized_start == quantize_time(note.start, resolution, bpm)
    IN  [start_time |-> quantized_start,
         measure |-> quantized_start \div MeasureDurationSeconds(bpm),
         midi_note |-> note.pitch,
         duration_beats |->
             calculate_duration_with_quantization(note.start, note.end, bpm, resolution),
         note_name |-> note_number_to_name(note.pitch),
         src |-> src]

\* the sort key (measure, start_time, midi_note)
NoteBefore(a, b) ==
    \/ a.measure < b.measure
    \/ a.measure = b.measure /\ a.start_time < b.start_time
    \/ a.measure = b.measure /\ a.start_time = b.start_time /\ a.midi_note < b.midi_note

\* all_notes.sort(key=...): stable
RECURSIVE SortNotes(_)
SortNotes(s) ==
    IF Len(s) <= 1 THEN s
    ELSE LET rest == SortNotes(Tail(s))
             x == Head(s)
             k == Cardinality({i \in 1..Len(rest) : NoteBefore(rest[i], x)})
         IN  SubSeq(rest, 1, k) \o <<x>> \o SubSeq(rest, k + 1, Len(rest))

\* a finite set of integers as the ascending sequence: sorted(keys)
RECURSIVE SortedKeys(_)
SortedKeys(S) ==
    IF S = {} THEN <<>>
    ELSE LET m == CHOOSE x \in S : \A y \in S : x <= y
         IN  <<m>> \o SortedKeys(S \ {m})

RECURSIVE Concat(_)
Concat(ss) == IF ss = <<>> THEN <<>> ELSE Head(ss) \o Concat(Tail(ss))

\* round(note['start_time'], 2), in hundredths of a second
StartKey(note) == PyRound(note.start_time, SecUnit \div 100)

\* round(note['duration_beats'], 2), in hundredths of a beat
DurationKey(note) == PyRound(note.duration_beats, BeatUnit \div 100)

\* process_measure_with_clef_balancing: the events (buckets) of a source measure, by
\* start key and then by duration key; an event's duration_beats is its duration key
BucketEvents(notes_of_measure, beats_per_clef_limit) ==
    LET start_keys == SortedKeys({StartKey(notes_of_measure[i]) : i \in 1..Len(notes_of_measure)})
        TimeGroup(sk) == LET In(n) == StartKey(n) = sk IN SelectSeq(notes_of_measure, In)
        EventsAt(sk) ==
            LET time_group == TimeGroup(sk)
                duration_keys ==
                    SortedKeys({DurationKey(time_group[i]) : i \in 1..Len(time_group)})
                Event(dk) ==
                    LET In(n) == DurationKey(n) = dk
                        duration_beats == dk * (BeatUnit \div 100)
                    IN  [start_time |-> sk,
                         duration_beats |-> duration_beats,
                         safe_duration |->
                             beats_to_duration_symbol_vexflow_safe(duration_beats,
                                                                   beats_per_clef_limit),
                         notes |-> SelectSeq(time_group, In)]
            IN  [i \in 1..Len(duration_keys) |-> Event(duration_keys[i])]
    IN  Concat([i \in 1..Len(start_keys) |-> EventsAt(start_keys[i])])

NotesOfMeasure(notes, m) == LET In(n) == n.measure = m IN SelectSeq(notes, In)

MaxMeasure(notes) ==
    CHOOSE m \in {notes[i].measure : i \in 1..Len(notes)} :
        \A i \in 1..Len(notes) : notes[i].measure <= m

ZeroLoads == [treble |-> 0, bass |-> 0]

NoStep == [kind |-> "none"]

\* the values of the variables a conversion does not use
IdleReverse ==
    /\ pm_instruments = 0 /\ pm_notes = <<>> /\ all_notes = <<>> /\ quantize_resolution = 0
    /\ note_events = <<>> /\ result_measures = <<>> /\ current_measure_data = <<>>
    /\ current_clef_loads = ZeroLoads /\ current_measure_idx = 0 /\ note_id_counter = 1
    /\ last_step = NoStep

IdleForward ==
    /\ measure_notes = <<>> /\ clef_positions = ZeroLoads
    /\ notes_by_clef = [treble |-> <<>>, bass |-> <<>>] /\ measure_durations = <<>>

IdleCall == call = [fn |-> "none", args |-> <<>>, out |-> <<>>]

IdleMulti ==
    /\ raised = "" /\ json_files_data = <<>> /\ file_idx = 0
    /\ used_channels = {} /\ channels = <<>>

MultiLocals == <<json_files_data, file_idx, used_channels, channels>>

ReverseLocals == <<all_notes, measure_idx, note_events, result_measures,
                   current_measure_data, current_clef_loads, current_measure_idx,
                   note_id_counter, last_step, measures>>

ReverseInput == <<tempo, time_signature, quantize_resolution, pm_instruments, pm_notes>>

ForwardLocals == <<measure_notes, clef_positions, notes_by_clef, measure_durations>>

\* a timed input (instruments with the notes of a list of NoteLists, or with a run) is
\* handed to create_json_from_midi
InitReverse ==
    /\ pc = "load"
    /\ \E c \in 1..Len(Configs) :
          /\ tempo = Configs[c].tempo
          /\ time_signature = [numerator |-> Configs[c].numerator,
                               denominator |-> Configs[c].denominator]
          /\ quantize_resolution = Configs[c].resolution
    /\ pm_instruments \in 0..MaxInstruments
    /\ \/ \E l \in NoteLists :
             /\ pm_instruments = 0 => l = <<>>
             /\ pm_notes = [i \in 1..Len(l) |-> NoteUniverse[l[i]]]
       \/ /\ pm_instruments >= 1
          /\ \E n \in (MaxRun - 1)..MaxRun : pm_notes = Run(n)
    /\ all_notes = <<>> /\ measure_idx = 0 /\ measures = <<>>
    /\ note_events = <<>> /\ result_measures = <<>> /\ current_measure_data = <<>>
    /\ current_clef_loads = ZeroLoads /\ current_measure_idx = 0 /\ note_id_counter = 1
    /\ last_step = NoStep
    /\ IdleForward /\ IdleCall /\ IdleMulti

beats_per_clef_limit == BeatsPerMeasure(time_signature)

\* the test of the instruments left out
NoInstrumentsIgnored == FALSE

\* not pm.instruments
NoInstruments == pm_instruments = 0

\* raise ValueError("MIDI file contains no instruments")
RaiseNoInstruments ==
    /\ pc = "load"
    /\ NoInstruments
    /\ raised' = "MIDI file contains no instruments"
    /\ pc' = "raised"
    /\ UNCHANGED <<ReverseInput, ReverseLocals, ForwardLocals, call, MultiLocals>>

\* create_json_from_midi up to the measure loop: quantize every note, sort
LoadMidi ==
    /\ pc = "load"
    /\ ~NoInstruments
    /\ all_notes' = SortNotes([i \in 1..Len(pm_notes) |->
                        QuantizedNote(pm_notes[i], i, quantize_resolution, tempo)])
    /\ measures' = <<>>
    /\ measure_idx' = 0
    /\ pc' = IF pm_notes = <<>> THEN "done" ELSE "measure"
    /\ UNCHANGED <<ReverseInput, note_events, result_measures, current_measure_data,
                   current_clef_loads, current_measure_idx, note_id_counter, last_step,
                   ForwardLocals, call, raised, MultiLocals>>

\* the measure loop, a measure without notes: measures.append([])
EmptyMeasure ==
    /\ pc = "measure"
    /\ NotesOfMeasure(all_notes, measure_idx) = <<>>
    /\ measures' = Append(measures, <<>>)
    /\ measure_idx' = measure_idx + 1
    /\ UNCHANGED <<pc, ReverseInput, all_notes, note_events, result_measures,
                   current_measure_data, current_clef_loads, current_measure_idx,
                   note_id_counter, last_step, ForwardLocals, call, raised, MultiLocals>>

\* the measure loop, a measure with notes: process_measure_with_clef_balancing builds the
\* events and distribute_events_with_measure_splitting starts
StartMeasure ==
    /\ pc = "measure"
    /\ NotesOfMeasure(all_notes, measure_idx) # <<>>
    /\ note_events' = BucketEvents(NotesOfMeasure(all_notes, measure_idx), beats_per_clef_limit)
    /\ result_measures' = <<>>
    /\ current_measure_data' = <<>>
    /\ current_clef_loads' = ZeroLoads
    /\ current_measure_idx' = measure_idx
    /\ note_id_counter' = 1
    /\ last_step' = NoStep
    /\ pc' = "distribute"
    /\ UNCHANGED <<ReverseInput, all_notes, measure_idx, measures, ForwardLocals, call, raised, MultiLocals>>

\* a chord named by its lowest note alone
ChordNameBare(notes) == [paren |-> FALSE, toks |-> <<notes[1].note_name>>]

\* the name of a (sub-)chord: "(a b c)", or the bare spelling of a single note
ChordName(notes) ==
    [paren |-> Len(notes) > 1, toks |-> [i \in 1..Len(notes) |-> notes[i].note_name]]

\* a string as the sequence of its character codes; str(n) for n >= 0
RECURSIVE Digits(_)
Digits(n) == IF n < 10 THEN <<48 + n>> ELSE Digits(n \div 10) \o <<48 + (n % 10)>>

\* the id without the counter: f'converted-{m}-1'
IdStringOfMeasure(m, j) ==
    <<99, 111, 110, 118, 101, 114, 116, 101, 100, 45>> \o Digits(m) \o <<45>> \o Digits(1)

\* f'converted-{m}-{j}'
IdString(m, j) ==
    <<99, 111, 110, 118, 101, 114, 116, 101, 100, 45>> \o Digits(m) \o <<45>> \o Digits(j)

\* the dict appended to current_measure_data; src are the input notes it names (history)
OutputEvent(m, j, name, clef, duration, notes) ==
    [id |-> IdString(m, j), name |-> name, clef |-> clef, duration |-> duration,
     measure |-> m, isRest |-> FALSE,
     src |-> {notes[i].src : i \in 1..Len(notes)}]

\* the test without the 0.01 tolerance, and against one beat less than the capacity
OverflowsEarly(load, duration_beats) ==
    load + duration_beats > beats_per_clef_limit - BeatUnit

Overflows(load, duration_beats) ==
    load + duration_beats > beats_per_clef_limit + CapacityTolerance

\* one iteration of the loop of distribute_events_with_measure_splitting, a single note
DistributeSingle ==
    /\ pc = "distribute"
    /\ note_events # <<>>
    /\ Len(Head(note_events).notes) = 1
    /\ LET event == Head(note_events)
           note == event.notes[1]
           duration_beats == DurationBeats(event.safe_duration)
           best_clef == choose_clef_with_load_balancing(note.midi_note, current_clef_loads,
                                                        beats_per_clef_limit)
           flush == /\ Overflows(current_clef_loads[best_clef], duration_beats)
                    /\ current_measure_data # <<>>
           results == IF flush THEN Append(result_measures, current_measure_data)
                      ELSE result_measures
           data == IF flush THEN <<>> ELSE current_measure_data
           loads == IF flush THEN ZeroLoads ELSE current_clef_loads
           idx == IF flush THEN Len(results) + measure_idx ELSE current_measure_idx
           counter == IF flush THEN 1 ELSE note_id_counter
       IN  /\ result_measures' = results
           /\ current_measure_data' =
                  Append(data, OutputEvent(idx, counter, ChordName(event.notes), best_clef,
                                           event.safe_duration, event.notes))
           /\ current_clef_loads' = [loads EXCEPT ![best_clef] = @ + duration_beats]
           /\ current_measure_idx' = idx
           /\ note_id_counter' = counter + 1
           /\ last_step' = [kind |-> "single", flushed |-> flush, clef |-> best_clef,
                            beats |-> duration_beats, event |-> event]
    /\ note_events' = Tail(note_events)
    /\ UNCHANGED <<pc, ReverseInput, all_notes, measure_idx, measures, ForwardLocals, call, raised, MultiLocals>>

BassPart(notes) == LET In(n) == n.midi_note < 60 IN SelectSeq(notes, In)

TreblePart(notes) == LET In(n) == n.midi_note >= 60 IN SelectSeq(notes, In)

\* can_split: a pitch on each side of 60 and room for the chord's beats on both staves
can_split(notes, current_loads, duration_beats, limit) ==
    /\ Len(BassPart(notes)) >= 1 /\ Len(TreblePart(notes)) >= 1
    /\ current_loads.bass + duration_beats <= limit + CapacityTolerance
    /\ current_loads.treble + duration_beats <= limit + CapacityTolerance

\* one iteration of the loop, a chord: it fits the chosen clef, or is split across the
\* clefs, or goes whole to a new measure
DistributeChord ==
    /\ pc = "distribute"
    /\ note_events # <<>>
    /\ Len(Head(note_events).notes) > 1
    /\ LET event == Head(note_events)
           notes == SortByPitch(event.notes)
           duration_beats == DurationBeats(event.safe_duration)
           chord_clef == choose_chord_clef_with_load_balancing(notes, current_clef_loads,
                                                               beats_per_clef_limit)
           fits == ~Overflows(current_clef_loads[chord_clef], duration_beats)
           bass_notes == BassPart(notes)
           treble_notes == TreblePart(notes)
           splits == can_split(notes, current_clef_loads, duration_beats,
                               beats_per_clef_limit)
           flush == ~fits /\ ~splits /\ current_measure_data # <<>>
           results == IF flush THEN Append(result_measures, current_measure_data)
                      ELSE result_measures
           data == IF flush THEN <<>> ELSE current_measure_data
           loads == IF flush THEN ZeroLoads ELSE current_clef_loads
           idx == IF flush THEN Len(results) + measure_idx ELSE current_measure_idx
           counter == IF flush THEN 1 ELSE note_id_counter
           default_clef == choose_chord_clef_with_load_balancing(notes, loads,
                                                                 beats_per_clef_limit)
       IN  IF fits
           THEN /\ result_measures' = result_measures
                /\ current_measure_data' =
                       Append(current_measure_data,
                              OutputEvent(current_measure_idx, note_id_counter,
                                          ChordName(notes), chord_clef,
                                          event.safe_duration, notes))
                /\ current_clef_loads' =
                       [current_clef_loads EXCEPT ![chord_clef] = @ + duration_beats]
                /\ current_measure_idx' = current_measure_idx
                /\ note_id_counter' = note_id_counter + 1
                /\ last_step' = [kind |-> "chord_fit", flushed |-> FALSE,
                                 clef |-> chord_clef, beats |-> duration_beats,
                                 event |-> event]
           ELSE IF splits
           THEN /\ result_measures' = result_measures
                /\ current_measure_data' =
                       current_measure_data \o
                       << OutputEvent(current_measure_idx, note_id_counter,
                                      ChordName(bass_notes), "bass",
                                      event.safe_duration, bass_notes),
                          OutputEvent(current_measure_idx, note_id_counter + 1,
                                      ChordName(treble_notes), "treble",
                                      event.safe_duration, treble_notes) >>
                /\ current_clef_loads' =
                       [treble |-> current_clef_loads.treble + duration_beats,
                        bass |-> current_clef_loads.bass + duration_beats]
                /\ current_measure_idx' = current_measure_idx
                /\ note_id_counter' = note_id_counter + 2
                /\ last_step' = [kind |-> "chord_split", flushed |-> FALSE,
                                 clef |-> "both", beats |-> duration_beats,
                                 event |-> event]
           ELSE /\ result_measures' = results
                /\ current_measure_data' =
                       Append(data, OutputEvent(idx, counter, ChordName(notes), default_clef,
                                                event.safe_duration, notes))
                /\ current_clef_loads' = [loads EXCEPT ![default_clef] = @ + duration_beats]
                /\ current_measure_idx' = idx
                /\ note_id_counter' = counter + 1
                /\ last_step' = [kind |-> "chord_new", flushed |-> flush,
                                 clef |-> default_clef, beats |-> duration_beats,
                                 event |-> event]
    /\ note_events' = Tail(note_events)
    /\ UNCHANGED <<pc, ReverseInput, all_notes, measure_idx, measures, ForwardLocals, call, raised, MultiLocals>>

\* the return without "if current_measure_data: result_measures.append(...)"
ReturnWithoutRemainder ==
    /\ pc = "distribute"
    /\ note_events = <<>>
    /\ measures' = measures \o result_measures
    /\ measure_idx' = measure_idx + 1
    /\ last_step' = [kind |-> "return", source |-> measure_idx]
    /\ pc' = IF measure_idx + 1 > MaxMeasure(all_notes) THEN "done" ELSE "measure"
    /\ UNCHANGED <<ReverseInput, all_notes, note_events, result_measures,
                   current_measure_data, current_clef_loads, current_measure_idx,
                   note_id_counter, ForwardLocals, call, raised, MultiLocals>>

\* after the last event: the final measure is added, distribute_... returns and
\* create_json_from_midi extends measures by the result; after the last source measure
\* the document is returned
ReturnMeasures ==
    /\ pc = "distribute"
    /\ note_events = <<>>
    /\ LET results == IF current_measure_data # <<>>
                      THEN Append(result_measures, current_measure_data)
                      ELSE result_measures
       IN  /\ result_measures' = results
           /\ measures' = measures \o results
    /\ measure_idx' = measure_idx + 1
    /\ last_step' = [kind |-> "return", source |-> measure_idx]
    /\ pc' = IF measure_idx + 1 > MaxMeasure(all_notes) THEN "done" ELSE "measure"
    /\ UNCHANGED <<ReverseInput, all_notes, note_events, current_measure_data,
                   current_clef_loads, current_measure_idx, note_id_counter,
                   ForwardLocals, call, raised, MultiLocals>>

NextReverse ==
    \/ RaiseNoInstruments
    \/ LoadMidi
    \/ EmptyMeasure
    \/ StartMeasure
    \/ DistributeSingle
    \/ DistributeChord
    \/ ReturnMeasures

SpecReverse == InitReverse /\ [][NextReverse]_vars

-----------------------------------------------------------------------------
(* Forward converter: the symbolic input *)

\* the most events of a measure of a symbolic input
MaxEvents == 2

Spelled(letter, acc, octave) == [letter |-> letter, acc |-> acc, octave |-> octave]

BareName(tok) == [paren |-> FALSE, toks |-> <<tok>>]

\* the events the inputs are made of, without their ids: a quarter rest on each stave,
\* "C4", "(C3 E3)", "G#4" with a code that is not in the table, "H4", which
\* pretty_midi cannot resolve, and "(C4 H4)"
EventTemplates ==
    << [name |-> EmptyName, clef |-> "treble", duration |-> "q", isRest |-> TRUE],
       [name |-> EmptyName, clef |-> "bass", duration |-> "8", isRest |-> TRUE],
       [name |-> BareName(Spelled("C", "", 4)), clef |-> "treble", duration |-> "q",
        isRest |-> FALSE],
       [name |-> [paren |-> TRUE, toks |-> <<Spelled("C", "", 3), Spelled("E", "", 3)>>],
        clef |-> "bass", duration |-> "h", isRest |-> FALSE],
       [name |-> BareName(Spelled("G", "#", 4)), clef |-> "treble", duration |-> "x",
        isRest |-> FALSE],
       [name |-> BareName(Spelled("H", "", 4)), clef |-> "treble", duration |-> "h.",
        isRest |-> FALSE],
       [name |-> [paren |-> TRUE, toks |-> <<Spelled("C", "", 4), Spelled("H", "", 4)>>],
        clef |-> "bass", duration |-> "q", isRest |-> FALSE] >>

\* the ids of the input events: "a", "b", "c"
EventIds == {<<97>>, <<98>>, <<99>>}

InputEvent(t, id, m) ==
    [id |-> id, name |-> EventTemplates[t].name, clef |-> EventTemplates[t].clef,
     duration |-> EventTemplates[t].duration, measure |-> m,
     isRest |-> EventTemplates[t].isRest, src |-> {}]

\* the measures of the inputs: up to MaxEvents events, in any order of their ids
InputMeasures(m) ==
    UNION {[1..n -> {InputEvent(t, id, m) : t \in 1..Len(EventTemplates), id \in EventIds}] :
              n \in 0..MaxEvents}

\* the measures that precede the measure under study in an input
LeadingMeasures == {<<>>, << <<>> >>, << <<InputEvent(3, <<97>>, 0)>> >>}

\* the tempo and time signature of the inputs
ForwardConfigs ==
    << [tempo |-> 120, numerator |-> 4, denominator |-> 4],
       [tempo |-> 60, numerator |-> 6, denominator |-> 8] >>

-----------------------------------------------------------------------------
(* Forward converter: process_measures *)

\* a < b for strings (sequences of character codes): Python's str comparison
RECURSIVE StrLess(_, _)
StrLess(a, b) ==
    IF b = <<>> THEN FALSE
    ELSE IF a = <<>> THEN TRUE
    ELSE IF Head(a) # Head(b) THEN Head(a) < Head(b)
    ELSE StrLess(Tail(a), Tail(b))

\* the measure taken in its input order
UnsortedById(s) == s

\* sorted(measure, key=lambda x: x.get('id', '')): stable
RECURSIVE SortById(_)
SortById(s) ==
    IF Len(s) <= 1 THEN s
    ELSE LET rest == SortById(Tail(s))
             x == Head(s)
             k == Cardinality({i \in 1..Len(rest) : StrLess(rest[i].id, x.id)})
         IN  SubSeq(rest, 1, k) \o <<x>> \o SubSeq(rest, k + 1, Len(rest))

\* a symbolic input is handed to create_midi_from_json, which calls process_measures
InitForward ==
    /\ pc = "fwd_measure"
    /\ \E c \in 1..Len(ForwardConfigs) :
          /\ tempo = ForwardConfigs[c].tempo
          /\ time_signature = [numerator |-> ForwardConfigs[c].numerator,
                               denominator |-> ForwardConfigs[c].denominator]
    /\ \E lead \in LeadingMeasures : \E m \in InputMeasures(Len(lead)) :
          measures = Append(lead, m)
    /\ measure_idx = 0
    /\ IdleReverse /\ IdleForward /\ IdleCall /\ IdleMulti

\* measure_duration_beats = beats_per_measure * (4.0 / beat_unit)
measure_duration_beats == BeatsPerMeasure(time_signature)

RECURSIVE SumSeq(_)
SumSeq(s) == IF s = <<>> THEN 0 ELSE Head(s) + SumSeq(Tail(s))

\* the loop over the measures, the head of an iteration: the measure's duration is
\* recorded, the cursors are reset, the events are sorted by id
BeginMeasure ==
    /\ pc = "fwd_measure"
    /\ measure_idx < Len(measures)
    /\ measure_durations' =
           Append(measure_durations, beats_to_seconds(measure_duration_beats, tempo))
    /\ clef_positions' = ZeroLoads
    /\ measure_notes' = SortById(measures[measure_idx + 1])
    /\ pc' = "fwd_note"
    /\ UNCHANGED <<call, raised, MultiLocals, ReverseInput, all_notes, measure_idx, note_events, result_measures,
                   current_measure_data, current_clef_loads, current_measure_idx,
                   note_id_counter, last_step, measures, notes_by_clef>>

AdvanceBothCursors(positions, clef, duration_beats) ==
    [treble |-> positions.treble + duration_beats, bass |-> positions.bass + duration_beats]

\* clef_positions[clef] += duration_beats
AdvanceCursor(positions, clef, duration_beats) ==
    [positions EXCEPT ![clef] = @ + duration_beats]

\* a rest: the cursor of its clef advances
ProcessRest ==
    /\ pc = "fwd_note"
    /\ measure_notes # <<>>
    /\ Head(measure_notes).isRest
    /\ LET note_data == Head(measure_notes)
           duration_beats == DurationBeats(note_data.duration)
       IN  clef_positions' = AdvanceCursor(clef_positions, note_data.clef, duration_beats)
    /\ measure_notes' = Tail(measure_notes)
    /\ UNCHANGED <<pc, call, raised, MultiLocals, ReverseInput, ReverseLocals, notes_by_clef, measure_durations>>

\* the note_info dicts of an event; at is the measure's index and the event's place in
\* the sorted measure (history)
NoteInfos(midi_notes, start_time, duration_seconds, note_data, at) ==
    [i \in 1..Len(midi_notes) |->
        [start_time |-> start_time,
         end_time |-> start_time + duration_seconds,
         midi_note |-> midi_notes[i],
         velocity |-> 80,
         original_data |-> note_data.id,
         at |-> at]]

\* an event whose name parses: one note per pitch, the cursor of its clef advances
ProcessNote ==
    /\ pc = "fwd_note"
    /\ measure_notes # <<>>
    /\ ~Head(measure_notes).isRest
    /\ parse_note_name(Head(measure_notes).name).ok
    /\ LET note_data == Head(measure_notes)
           clef == note_data.clef
           measure_start == SumSeq(SubSeq(measure_durations, 1, measure_idx))
           beat_offset == clef_positions[clef]
           start_time == measure_start + beats_to_seconds(beat_offset, tempo)
           duration_beats == DurationBeats(note_data.duration)
           duration_seconds == beats_to_seconds(duration_beats, tempo)
           midi_notes == parse_note_name(note_data.name).notes
           place == Len(measures[measure_idx + 1]) - Len(measure_notes) + 1
       IN  /\ notes_by_clef' =
                  [notes_by_clef EXCEPT ![clef] =
                      @ \o NoteInfos(midi_notes, start_time, duration_seconds, note_data,
                                     <<measure_idx, place>>)]
           /\ clef_positions' = AdvanceCursor(clef_positions, clef, duration_beats)
    /\ measure_notes' = Tail(measure_notes)
    /\ UNCHANGED <<pc, call, raised, MultiLocals, ReverseInput, ReverseLocals, measure_durations>>

\* break in the place of continue: the rest of the measure is left out
SkipMalformedAndRest ==
    /\ pc = "fwd_note"
    /\ measure_notes # <<>>
    /\ ~Head(measure_notes).isRest
    /\ ~parse_note_name(Head(measure_notes).name).ok
    /\ measure_notes' = <<>>
    /\ UNCHANGED <<pc, call, raised, MultiLocals, ReverseInput, ReverseLocals, clef_positions,
                   notes_by_clef, measure_durations>>

\* an event whose name does not parse: a warning, and the loop continues
SkipMalformed ==
    /\ pc = "fwd_note"
    /\ measure_notes # <<>>
    /\ ~Head(measure_notes).isRest
    /\ ~parse_note_name(Head(measure_notes).name).ok
    /\ measure_notes' = Tail(measure_notes)
    /\ UNCHANGED <<pc, call, raised, MultiLocals, ReverseInput, ReverseLocals, clef_positions, notes_by_clef,
                   measure_durations>>

\* the end of an iteration of the loop over the measures
EndMeasure ==
    /\ pc = "fwd_note"
    /\ measure_notes = <<>>
    /\ measure_idx' = measure_idx + 1
    /\ pc' = "fwd_measure"
    /\ UNCHANGED <<call, raised, MultiLocals, ReverseInput, all_notes, note_events, result_measures,
                   current_measure_data, current_clef_loads, current_measure_idx,
                   note_id_counter, last_step, measures, ForwardLocals>>

\* return notes_by_clef, measure_durations
ReturnNotes ==
    /\ pc = "fwd_measure"
    /\ measure_idx = Len(measures)
    /\ pc' = "fwd_done"
    /\ UNCHANGED <<call, raised, MultiLocals, ReverseInput, ReverseLocals, ForwardLocals>>

NextForward ==
    \/ BeginMeasure
    \/ ProcessRest
    \/ ProcessNote
    \/ SkipMalformed
    \/ EndMeasure
    \/ ReturnNotes

SpecForward == InitForward /\ [][NextForward]_vars

-----------------------------------------------------------------------------
(* Round trip: convert_midi_with_best_accuracy *)

\* json_to_midi(json_data): the document create_json_from_midi returned (its tempo is
\* int(tempo), its time signature the input's) is handed to create_midi_from_json
RegenerateMidi ==
    /\ pc = "done"
    /\ pc' = "fwd_measure"
    /\ measure_idx' = 0
    /\ UNCHANGED <<call, raised, MultiLocals, ReverseInput, all_notes, note_events, result_measures,
                   current_measure_data, current_clef_loads, current_measure_idx,
                   note_id_counter, last_step, measures, ForwardLocals>>

-----------------------------------------------------------------------------
(* Forward converter: create_midi_from_multiple_json, the parts and their channels *)

\* the most parts handed to create_midi_from_multiple_json
MaxParts == 3

\* a part without a midiChannel: its channel is str(file_idx)
NoChannel == 0 - 1

\* the midiChannel of the parts of the inputs
PartChannels == {NoChannel, 0, 1, 14, 15}

\* the inputs: each part is a document without measures, given by its midiChannel
PartLists == UNION {[1..n -> PartChannels] : n \in 0..MaxParts}

InitMulti ==
    /\ pc = "multi"
    /\ tempo = 120
    /\ time_signature = [numerator |-> 4, denominator |-> 4]
    /\ measures = <<>>
    /\ measure_idx = 0
    /\ json_files_data \in PartLists
    /\ raised = "" /\ file_idx = 0 /\ used_channels = {} /\ channels = <<>>
    /\ IdleReverse /\ IdleForward /\ IdleCall

\* raise ValueError("No JSON data provided")
RaiseNoData ==
    /\ pc = "multi"
    /\ json_files_data = <<>>
    /\ raised' = "No JSON data provided"
    /\ pc' = "raised"
    /\ UNCHANGED <<ReverseInput, ReverseLocals, ForwardLocals, call, MultiLocals>>

\* while channel in used_channels: channel += 1; if channel >= 16: channel = 0; break
RECURSIVE AutoAssign(_, _)
AutoAssign(channel, used) ==
    IF channel \notin used THEN channel
    ELSE IF channel + 1 >= 16 THEN 0
    ELSE AutoAssign(channel + 1, used)

\* int(json_data.get('midiChannel', str(file_idx)))
RequestedChannel(parts, idx) ==
    IF parts[idx + 1] = NoChannel THEN idx ELSE parts[idx + 1]

\* an iteration of the loop over the parts: the channel is assigned; the part has no
\* measures, so process_measures returns no notes and no instrument is added
AssignChannel ==
    /\ pc = "multi"
    /\ file_idx < Len(json_files_data)
    /\ LET requested_channel == RequestedChannel(json_files_data, file_idx)
           channel == AutoAssign(requested_channel, used_channels)
       IN  /\ used_channels' = used_channels \cup {channel}
           /\ channels' = Append(channels, channel)
    /\ file_idx' = file_idx + 1
    /\ UNCHANGED <<pc, ReverseInput, ReverseLocals, ForwardLocals, call, raised,
                   json_files_data>>

\* return pm
ReturnMidi ==
    /\ pc = "multi"
    /\ json_files_data # <<>>
    /\ file_idx = Len(json_files_data)
    /\ pc' = "multi_done"
    /\ UNCHANGED <<ReverseInput, ReverseLocals, ForwardLocals, call, raised, MultiLocals>>

NextMulti ==
    \/ RaiseNoData
    \/ AssignChannel
    \/ ReturnMidi

SpecMulti == InitMulti /\ [][NextMulti]_vars

-----------------------------------------------------------------------------
(* The conversions of the package *)

Init == InitReverse \/ InitForward \/ InitMulti

Next == NextReverse \/ RegenerateMidi \/ NextForward \/ NextMulti

Spec == Init /\ [][Next]_vars

-----------------------------------------------------------------------------
(* The functions of the package called on their own *)

\* the inputs of quantize_time run to MaxTimeStep * 1/128 s
MaxTimeStep == 40

\* the inputs of the duration functions run to MaxBeatStep * 1/32 beat
MaxBeatStep == 230

\* the longest pitch list handed to the codec
MaxPitches == 2

CallTimes == {k * (SecUnit \div 128) + o : k \in 0..MaxTimeStep, o \in {0, 1, 63}}

CallResolutions == {BeatUnit \div 128, BeatUnit \div 8, BeatUnit \div 4}

CallTempos == {40, 60, 100, 120}

\* around every 1/32 beat, also just inside and just outside the 0.001 tolerance
CallBeats ==
    {k * (BeatUnit \div 32) + o : k \in 0..MaxBeatStep,
                                  o \in {0 - 17, 0 - 16, 0 - 15, 0, 15, 16, 17}}

CallPitches == {0, 11, 12, 59, 60, 61, 66, 127}

CallPitchLists == UNION {[1..n -> CallPitches] : n \in 0..MaxPitches}

InitCalls ==
    /\ pc = "call"
    /\ tempo = 120
    /\ time_signature = [numerator |-> 4, denominator |-> 4]
    /\ measures = <<>>
    /\ measure_idx = 0
    /\ IdleReverse /\ IdleForward /\ IdleCall /\ IdleMulti

CallRecord(fn, args, out) == [fn |-> fn, args |-> args, out |-> out]

CallUnchanged ==
    UNCHANGED <<pc, ReverseInput, ReverseLocals, ForwardLocals, raised, MultiLocals>>

CallQuantizeTime ==
    /\ pc = "call" /\ call.fn = "none"
    /\ \E t \in CallTimes, r \in CallResolutions, bpm \in CallTempos :
          call' = CallRecord("quantize_time", <<t, r, bpm>>, quantize_time(t, r, bpm))
    /\ CallUnchanged

\* quantize_time applied to a value quantize_time returned, same resolution and tempo
CallQuantizeTimeAgain ==
    /\ pc = "call" /\ call.fn = "quantize_time"
    /\ call' = CallRecord("quantize_time again",
                          <<call.out, call.args[2], call.args[3], call.args[1]>>,
                          quantize_time(call.out, call.args[2], call.args[3]))
    /\ CallUnchanged

CallBeatsToDurationSymbol ==
    /\ pc = "call" /\ call.fn = "none"
    /\ \E beats \in CallBeats :
          call' = CallRecord("beats_to_duration_symbol", <<beats>>,
                             beats_to_duration_symbol(beats))
    /\ CallUnchanged

CallBeatsToDurationSymbolImproved ==
    /\ pc = "call" /\ call.fn = "none"
    /\ \E beats \in CallBeats, allow_compound \in BOOLEAN :
          call' = CallRecord("beats_to_duration_symbol_improved", <<beats, allow_compound>>,
                             beats_to_duration_symbol_improved(beats, allow_compound))
    /\ CallUnchanged

\* parse_note_name(midi_notes_to_name(p))
CallCodec ==
    /\ pc = "call" /\ call.fn = "none"
    /\ \E p \in CallPitchLists :
          call' = CallRecord("codec", <<p>>,
                             <<midi_notes_to_name(p),
                               parse_note_name(midi_notes_to_name(p))>>)
    /\ CallUnchanged

\* the loads handed to the allocators: sums of table values, up to two whole notes
CallLoads == {k * (BeatUnit \div 8) : k \in {0, 4, 8, 9, 12, 13, 16, 32, 64}}

CallClefPitches == {0, 54, 55, 59, 60, 65, 66, 127}

CallChooseClef ==
    /\ pc = "call" /\ call.fn = "none"
    /\ \E midi_note \in CallClefPitches, treble_load \in CallLoads, bass_load \in CallLoads :
          LET current_loads == [treble |-> treble_load, bass |-> bass_load]
          IN  call' = CallRecord("choose_clef_with_load_balancing",
                                 <<midi_note, current_loads, 4 * BeatUnit>>,
                                 choose_clef_with_load_balancing(midi_note, current_loads,
                                                                 4 * BeatUnit))
    /\ CallUnchanged

\* the tempos handed to beats_to_seconds: positive, zero and negative
CallAnyTempos == {0 - 120, 0 - 60, 0, 60, 120}

CallBeatsToSeconds ==
    /\ pc = "call" /\ call.fn = "none"
    /\ \E k \in 0..32, bpm \in CallAnyTempos :
          call' = CallRecord("beats_to_seconds", <<k * (BeatUnit \div 8), bpm>>,
                             beats_to_seconds_result(k * (BeatUnit \div 8), bpm))
    /\ CallUnchanged

\* the capacities handed to beats_to_duration_symbol_vexflow_safe, from 0.125 beat to
\* 8 beats, those of 5/16, 5/8, 3/4, 7/8 and 4/4 among them
CallCapacities ==
    {BeatUnit \div 8, BeatUnit \div 5, (5 * BeatUnit) \div 4, (5 * BeatUnit) \div 2,
     3 * BeatUnit, (7 * BeatUnit) \div 2, 4 * BeatUnit, 5 * BeatUnit, 6 * BeatUnit,
     8 * BeatUnit}

CallVexflowSafe ==
    /\ pc = "call" /\ call.fn = "none"
    /\ \E k \in 0..72, max_beats_per_measure \in CallCapacities :
          call' = CallRecord("beats_to_duration_symbol_vexflow_safe",
                             <<k * (BeatUnit \div 8), max_beats_per_measure>>,
                             beats_to_duration_symbol_vexflow_safe(k * (BeatUnit \div 8),
                                                                   max_beats_per_measure))
    /\ CallUnchanged

\* the pitches of the chords handed to choose_chord_clef_with_load_balancing
CallChordPitches == {48, 56, 57, 59, 60, 66, 67, 68, 72}

\* the chords: two notes in any order
CallChords == {<<[midi_note |-> a], [midi_note |-> b]>> : a, b \in CallChordPitches}

CallChooseChordClef ==
    /\ pc = "call" /\ call.fn = "none"
    /\ \E notes \in CallChords, treble_load \in CallLoads, bass_load \in CallLoads :
          LET current_loads == [treble |-> treble_load, bass |-> bass_load]
          IN  call' = CallRecord("choose_chord_clef_with_load_balancing",
                                 <<notes, current_loads, 4 * BeatUnit>>,
                                 choose_chord_clef_with_load_balancing(notes, current_loads,
                                                                       4 * BeatUnit))
    /\ CallUnchanged

\* the start and end times handed to calculate_duration_with_quantization: the first
\* thirteen steps of CallTimes, on and off the grid, in either order
CallEndpoints == {t \in CallTimes : t < 13 * (SecUnit \div 128)}

CallCalculateDuration ==
    /\ pc = "call" /\ call.fn = "none"
    /\ \E start_time \in CallEndpoints, end_time \in CallEndpoints,
          bpm \in CallTempos, r \in CallResolutions :
          call' = CallRecord("calculate_duration_with_quantization",
                             <<start_time, end_time, bpm, r>>,
                             calculate_duration_with_quantization(start_time, end_time,
                                                                  bpm, r))
    /\ CallUnchanged

NextCalls ==
    \/ CallQuantizeTime
    \/ CallQuantizeTimeAgain
    \/ CallBeatsToDurationSymbol
    \/ CallBeatsToDurationSymbolImproved
    \/ CallCodec
    \/ CallChooseClef
    \/ CallBeatsToSeconds
    \/ CallVexflowSafe
    \/ CallChooseChordClef
    \/ CallCalculateDuration

SpecCalls == InitCalls /\ [][NextCalls]_vars

-----------------------------------------------------------------------------
(* The claims: the functions called on their own (SpecCalls) *)

\* C8 (as claimed): for every pitch list p, the empty list included,
\* parse_note_name(midi_notes_to_name(p)) returns the pitches of p sorted ascending.
\* The code raises on the empty list's name.
C8_CodecRoundTrip ==
    call.fn = "codec" =>
        call.out[2] = [ok |-> TRUE, notes |-> SortedInts(call.args[1])]

\* C9: quantize_time applied to a result of quantize_time (same resolution, same tempo)
\* returns it unchanged, and every result is an integer multiple of the resolution, in
\* beats.
C9_IdempotentQuantization ==
    call.fn \in {"quantize_time", "quantize_time again"} =>
        LET r == call.args[2]
            bpm == call.args[3]
        IN  /\ (call.out * bpm) % (60 * (SecUnit \div BeatUnit)) = 0
            /\ ((call.out * bpm) \div (60 * (SecUnit \div BeatUnit))) % r = 0
            /\ call.fn = "quantize_time again" => call.out = call.args[1]

\* C9's case: a time off the grid was quantized to a later grid point, and the result
\* was quantized again
C9_Witness ==
    /\ call.fn = "quantize_time again"
    /\ call.args[1] > call.args[4]
    /\ call.args[3] = 60

TableIndex(symbol) ==
    CHOOSE i \in 1..Len(DURATION_TO_BEATS) : DURATION_TO_BEATS[i][1] = symbol

\* C10: the code beats_to_duration_symbol and beats_to_duration_symbol_improved (called
\* as beats_to_duration_symbol_improved(beats), dotted codes allowed) return is a key of
\* the table, nearest to beats, and the first of the nearest codes in table order; a
\* table value gets its own code.
C10_NearestDuration ==
    (\/ call.fn = "beats_to_duration_symbol"
     \/ call.fn = "beats_to_duration_symbol_improved" /\ call.args[2]) =>
        LET beats == call.args[1]
            Value(i) == DURATION_TO_BEATS[i][2]
        IN  /\ call.out \in DurationKeys
            /\ \A j \in 1..Len(DURATION_TO_BEATS) :
                   /\ Abs(beats - Value(TableIndex(call.out))) <= Abs(beats - Value(j))
                   /\ j < TableIndex(call.out) =>
                          Abs(beats - Value(TableIndex(call.out))) < Abs(beats - Value(j))
                   /\ beats = Value(j) => call.out = DURATION_TO_BEATS[j][1]

\* C10's case: two codes are equally near (0.3125 beat: "16" and "16."), the first in
\* table order is returned
C10_Witness ==
    /\ call.fn = "beats_to_duration_symbol_improved" /\ call.args[2]
    /\ call.out = "16"
    /\ \E j \in 1..Len(DURATION_TO_BEATS) :
           /\ DURATION_TO_BEATS[j][1] = "16."
           /\ Abs(call.args[1] - DURATION_TO_BEATS[j][2]) = Abs(call.args[1] - BeatUnit \div 4)

OtherClef(clef) == IF clef = "treble" THEN "bass" ELSE "treble"

\* C11: a single note gets the clef of determine_clef (treble iff pitch >= 60), except
\* that a note with 55 <= pitch <= 65 whose default stave carries more than 1.0 beat
\* more than the other stave gets the other stave; a note below 55 or above 65 gets its
\* default clef whatever the loads are.
C11_SingleNoteClef ==
    call.fn = "choose_clef_with_load_balancing" =>
        LET midi_note == call.args[1]
            loads == call.args[2]
            default == determine_clef(midi_note)
            in_band == 55 <= midi_note /\ midi_note <= 65
            overloaded == loads[default] - loads[OtherClef(default)] > BeatUnit
        IN  /\ (midi_note = 60 /\ loads.treble = loads.bass) => call.out = "treble"
            /\ (midi_note = 59 /\ loads.treble = loads.bass) => call.out = "bass"
            /\ (in_band /\ overloaded) => call.out = OtherClef(default)
            /\ ~(in_band /\ overloaded) => call.out = default
            /\ ~in_band => call.out = default

\* C11's case: a note of the band (65, default treble) moved to the bass stave because
\* the treble stave carries 1.125 beats more
C11_Witness ==
    /\ call.fn = "choose_clef_with_load_balancing"
    /\ call.args[1] = 65
    /\ call.args[2].treble - call.args[2].bass = (9 * BeatUnit) \div 8
    /\ call.out = "bass"

\* C12 (as claimed): beats_to_seconds(beats, tempo) returns beats * 60 / tempo when
\* tempo > 0 and raises an error for every tempo <= 0, zero and negative.  The code
\* raises for tempo 0 only.
C12_InvalidTempo ==
    call.fn = "beats_to_seconds" =>
        LET beats == call.args[1]
            bpm == call.args[2]
        IN  IF bpm > 0
            THEN /\ ~call.out.raised
                 /\ call.out.value * bpm = beats * 60 * (SecUnit \div BeatUnit)
            ELSE call.out.raised

\* C19 (as claimed): for every beats value and every max_beats_per_measure >= 0.125 the
\* beat value of the code beats_to_duration_symbol_vexflow_safe returns is
\* <= max_beats_per_measure; the code is never "w." and is a nearest member of the safe
\* subset to the clamped beats.  The nearest member can be longer than the capacity.
C19_SafeDurationBounded ==
    call.fn = "beats_to_duration_symbol_vexflow_safe" =>
        LET beats == call.args[1]
            max_beats_per_measure == call.args[2]
            clamped == Max(BeatUnit \div 8, Min(beats, max_beats_per_measure))
        IN  /\ DurationBeats(call.out) <= max_beats_per_measure
            /\ call.out # "w."
            /\ \E i \in 1..Len(SAFE_DURATIONS) :
                   /\ SAFE_DURATIONS[i][1] = call.out
                   /\ \A j \in 1..Len(SAFE_DURATIONS) :
                          Abs(clamped - SAFE_DURATIONS[i][2])
                              <= Abs(clamped - SAFE_DURATIONS[j][2])

\* C20 (as claimed): quantize_time returns the multiple of the resolution nearest to the
\* beat position, and a position exactly halfway between two grid points,
\* beats / resolution = k + 1/2, goes to the later one, (k + 1) * resolution.  Python's
\* round takes a half to the even neighbour.
C20_RoundHalfUp ==
    call.fn = "quantize_time" =>
        LET t == call.args[1]
            r == call.args[2]
            bpm == call.args[3]
            unit == 60 * (SecUnit \div BeatUnit)
            quantized_beats == (call.out * bpm) \div unit
            twice == (2 * t * bpm) \div (unit * r)
        IN  /\ 2 * Abs(t * bpm - quantized_beats * unit) <= unit * r
            /\ ((2 * t * bpm) % (unit * r) = 0 /\ twice % 2 = 1) =>
                   quantized_beats = ((twice + 1) \div 2) * r

\* C21 (as claimed): beats_to_duration_symbol_improved(beats, allow_compound=False)
\* returns a code without a dot (w, h, q, 8, 16 or 32) for every beats value, a value of
\* a dotted code (1.5, 3.0) included.  The exact-match loop of the code runs over the
\* whole table before the dotted codes are filtered out.
C21_NoDottedCodes ==
    (call.fn = "beats_to_duration_symbol_improved" /\ ~call.args[2]) =>
        call.out \in {"w", "h", "q", "8", "16", "32"}

\* the lowest and the highest pitch of a chord
LowestPitch(notes) ==
    CHOOSE p \in {notes[i].midi_note : i \in 1..Len(notes)} :
        \A i \in 1..Len(notes) : p <= notes[i].midi_note

HighestPitch(notes) ==
    CHOOSE p \in {notes[i].midi_note : i \in 1..Len(notes)} :
        \A i \in 1..Len(notes) : p >= notes[i].midi_note

\* C22 (as claimed): a chord that is neither entirely below 57 nor entirely above 67 (a
\* chord whose lowest pitch is exactly 67 included) gets the less loaded stave when the
\* loads differ by more than 1.5 beats, and otherwise bass if its lowest pitch is below
\* 60 and treble if not.  The code takes a chord whose lowest pitch is 67 for a clear
\* treble chord.
C22_BorderlineChordClef ==
    call.fn = "choose_chord_clef_with_load_balancing" =>
        LET notes == call.args[1]
            loads == call.args[2]
            lowest == LowestPitch(notes)
            highest == HighestPitch(notes)
            borderline == ~(highest < 57) /\ ~(lowest > 67)
        IN  borderline =>
                call.out = (IF loads.treble - loads.bass > (3 * BeatUnit) \div 2 THEN "bass"
                            ELSE IF loads.bass - loads.treble > (3 * BeatUnit) \div 2
                            THEN "treble"
                            ELSE IF lowest < 60 THEN "bass" ELSE "treble")

\* C30: for every start and end time (end <= start and both endpoints on one grid point
\* included), tempo > 0 and resolution r > 0, calculate_duration_with_quantization
\* returns max(q(end) - q(start), r) in beats, q being quantize_time on each endpoint:
\* the difference of the two grid points; the result is >= r and an integer multiple
\* of r.
C30_DurationNeverZero ==
    call.fn = "calculate_duration_with_quantization" =>
        LET start_time == call.args[1]
            end_time == call.args[2]
            bpm == call.args[3]
            r == call.args[4]
            grid_start == QuantizeIndex(start_time, r, bpm)
            grid_end == QuantizeIndex(end_time, r, bpm)
        IN  /\ call.out = Max((grid_end - grid_start) * r, r)
            /\ call.out >= r
            /\ call.out > 0
            /\ call.out % r = 0

\* C30's case: the end is before the start, on an earlier grid point, and the result is
\* the resolution
C30_Witness ==
    /\ call.fn = "calculate_duration_with_quantization"
    /\ call.args[2] < call.args[1]
    /\ QuantizeIndex(call.args[2], call.args[4], call.args[3])
           < QuantizeIndex(call.args[1], call.args[4], call.args[3])
    /\ call.out = call.args[4]

-----------------------------------------------------------------------------
(* The claims: the reverse converter (SpecReverse) *)

Clefs == {"treble", "bass"}

\* the beats of the events of a measure on one stave
RECURSIVE StaveBeats(_, _)
StaveBeats(measure_data, clef) ==
    IF measure_data = <<>> THEN 0
    ELSE (IF Head(measure_data).clef = clef THEN DurationBeats(Head(measure_data).duration)
          ELSE 0) + StaveBeats(Tail(measure_data), clef)

\* C1 (as claimed): in every measure the reverse converter emits, each stave's beats are
\* at most numerator*4/denominator + 0.01, for every time signature.  In 7/8 a note of
\* 3.5 beats is emitted as "w".
C1_StaveCapacity ==
    \A i \in 1..Len(measures) : \A clef \in Clefs :
        StaveBeats(measures[i], clef) <= BeatsPerMeasure(time_signature) + CapacityTolerance

\* C2 (as claimed): validate_measure_for_vexflow returns isValid for every measure the
\* reverse converter emits: the beats of both staves together fit the capacity.
C2_MeasureCapacity ==
    \A i \in 1..Len(measures) :
        validate_measure_for_vexflow(measures[i], time_signature).isValid

\* the beats (of the safe duration) of the events whose pitches all default to a clef
RECURSIVE DefaultClefBeats(_, _)
DefaultClefBeats(events, clef) ==
    IF events = <<>> THEN 0
    ELSE LET event == Head(events)
             mine == \A i \in 1..Len(event.notes) :
                         determine_clef(event.notes[i].midi_note) = clef
         IN  (IF mine THEN DurationBeats(event.safe_duration) ELSE 0)
             + DefaultClefBeats(Tail(events), clef)

\* C3 (as claimed): when the buckets of a source measure carry more than the capacity on
\* both staves, distribute_events_with_measure_splitting returns more than one measure
\* and no returned measure has a stave over capacity + 0.01.
C3_SplitTrigger ==
    last_step.kind = "return" =>
        LET events == BucketEvents(NotesOfMeasure(all_notes, last_step.source),
                                   BeatsPerMeasure(time_signature))
            capacity == BeatsPerMeasure(time_signature)
        IN  (/\ DefaultClefBeats(events, "treble") > capacity
             /\ DefaultClefBeats(events, "bass") > capacity) =>
                /\ Len(result_measures) > 1
                /\ \A i \in 1..Len(result_measures) : \A clef \in Clefs :
                       StaveBeats(result_measures[i], clef) <= capacity + CapacityTolerance

\* C16 (as claimed): when a bucket overflows and the current output measure is closed,
\* the bucket is placed in the new measure as the allocator places it from loads
\* {treble: 0, bass: 0}: on the clef the allocator chooses with both loads zero (for a
\* single note its pitch default), and then the loads are that clef = the bucket's beats
\* and the other stave = 0.  A single note keeps the clef chosen before the flush.
C16_FreshLoadsAfterFlush ==
    (last_step.kind \in {"single", "chord_new"} /\ last_step.flushed) =>
        LET notes == last_step.event.notes
            fresh_clef ==
                IF Len(notes) = 1
                THEN choose_clef_with_load_balancing(notes[1].midi_note, ZeroLoads,
                                                     beats_per_clef_limit)
                ELSE choose_chord_clef_with_load_balancing(notes, ZeroLoads,
                                                           beats_per_clef_limit)
        IN  /\ Len(notes) = 1 => fresh_clef = determine_clef(notes[1].midi_note)
            /\ last_step.clef = fresh_clef
            /\ current_measure_data[Len(current_measure_data)].clef = fresh_clef
            /\ current_clef_loads = [ZeroLoads EXCEPT ![fresh_clef] = last_step.beats]

\* the chords of two pitches that have a pitch below 60 and a pitch at or above 60
StraddlingChords ==
    {<<[midi_note |-> low], [midi_note |-> high]>> : low \in {48, 56, 59}, high \in {60, 67, 72}}

\* the loads a stave can carry: sums of table values up to two whole notes
StaveLoads == {k * (BeatUnit \div 8) : k \in 0..64}

\* C17 (as claimed): there are inputs for which a chord bucket with pitches below 60 and
\* at or above 60 that would overflow the stave chosen for it is split: at the capacity
\* of the conversion's time signature there are loads and a duration for which the
\* chosen stave overflows and can_split holds.  can_split asks for room on both staves,
\* the chosen one included, so no input splits.
C17_ChordSplitReachable ==
    \E notes \in StraddlingChords, treble_load \in StaveLoads, bass_load \in StaveLoads,
       d \in 1..Len(SAFE_DURATIONS) :
        LET loads == [treble |-> treble_load, bass |-> bass_load]
            duration_beats == SAFE_DURATIONS[d][2]
            chord_clef == choose_chord_clef_with_load_balancing(notes, loads,
                                                                beats_per_clef_limit)
        IN  /\ Overflows(loads[chord_clef], duration_beats)
            /\ can_split(notes, loads, duration_beats, beats_per_clef_limit)

\* C17, as a step of the conversion: no chord is ever emitted as two events
C17_NeverSplit == last_step.kind # "chord_split"

\* C18 (as claimed): the reverse converter gives each note the source measure
\* floor(quantized start in beats / (numerator*4/denominator)), the measure length of
\* the forward converter, for every time signature.  The code divides by the length of
\* a 4/4 measure whatever the time signature is.
C18_MeasureBoundaries ==
    \A i \in 1..Len(all_notes) :
        all_notes[i].measure =
            seconds_to_beats(all_notes[i].start_time, tempo) \div measure_duration_beats

\* the stave of a chord of a clear range: entirely below 57 or entirely above 67
ClearChordClef(notes) ==
    IF HighestPitch(notes) < 57 THEN "bass"
    ELSE IF LowestPitch(notes) > 67 THEN "treble"
    ELSE "none"

SourcesOf(notes) == {notes[i].src : i \in 1..Len(notes)}

\* the events of a document that name a note of a set of input notes
EventsNaming(doc, srcs) ==
    UNION {{<<i, k>> : k \in {l \in 1..Len(doc[i]) : doc[i][l].src \cap srcs # {}}} :
              i \in 1..Len(doc)}

\* C23: a chord bucket whose highest pitch is below 57 is emitted as one event on bass
\* and one whose lowest pitch is above 67 as one event on treble, whatever the loads
\* are, also when the bucket overflows and goes to a new measure: so it is at the step
\* that distributes the bucket, and so it is in the returned document.
C23_ClearChordsKeepStave ==
    /\ (/\ last_step.kind \in {"chord_fit", "chord_split", "chord_new"}
        /\ ClearChordClef(last_step.event.notes) # "none") =>
           LET emitted == current_measure_data[Len(current_measure_data)]
           IN  /\ last_step.kind # "chord_split"
               /\ last_step.clef = ClearChordClef(last_step.event.notes)
               /\ emitted.clef = ClearChordClef(last_step.event.notes)
               /\ emitted.src = SourcesOf(last_step.event.notes)
    /\ (pc = "done" /\ all_notes # <<>>) =>
           \A m \in 0..MaxMeasure(all_notes) :
               LET events == BucketEvents(NotesOfMeasure(all_notes, m), beats_per_clef_limit)
               IN  \A e \in 1..Len(events) :
                       (Len(events[e].notes) > 1 /\ ClearChordClef(events[e].notes) # "none") =>
                           /\ Cardinality(EventsNaming(measures, SourcesOf(events[e].notes))) = 1
                           /\ \A pl \in EventsNaming(measures, SourcesOf(events[e].notes)) :
                                  /\ measures[pl[1]][pl[2]].src = SourcesOf(events[e].notes)
                                  /\ measures[pl[1]][pl[2]].clef
                                         = ClearChordClef(events[e].notes)

\* C23's case: a chord above 67 overflowed the treble stave, which carried 1.5 beats
\* more than the bass stave, and was moved whole to a new measure, on treble
C23_Witness ==
    /\ last_step.kind = "chord_new"
    /\ last_step.flushed
    /\ LowestPitch(last_step.event.notes) > 67
    /\ last_step.clef = "treble"
    /\ Len(result_measures) >= 1
    /\ StaveBeats(result_measures[Len(result_measures)], "treble")
           > StaveBeats(result_measures[Len(result_measures)], "bass") + (3 * BeatUnit) \div 2

\* the stave the allocator chooses for a bucket at given loads
ChosenClef(event, loads) ==
    IF Len(event.notes) = 1
    THEN choose_clef_with_load_balancing(event.notes[1].midi_note, loads,
                                         BeatsPerMeasure(time_signature))
    ELSE choose_chord_clef_with_load_balancing(event.notes, loads,
                                               BeatsPerMeasure(time_signature))

\* the bucket's beats added to the load of the stave chosen for it exceed capacity + 0.01
BucketOverflows(event, loads) ==
    loads[ChosenClef(event, loads)] + DurationBeats(event.safe_duration)
        > BeatsPerMeasure(time_signature) + BeatUnit \div 100

\* no bucket of a sequence overflows when the buckets are placed one after the other
RECURSIVE NeverOverflows(_, _)
NeverOverflows(events, loads) ==
    \/ events = <<>>
    \/ /\ ~BucketOverflows(Head(events), loads)
       /\ NeverOverflows(Tail(events),
                         [loads EXCEPT ![ChosenClef(Head(events), loads)] =
                             @ + DurationBeats(Head(events).safe_duration)])

\* what holds of every state of distribute_events_with_measure_splitting: no closed
\* measure is empty, what it returns for a source measure is at least one measure, and
\* exactly one when no bucket overflows
FlushState ==
    /\ \A i \in 1..Len(result_measures) : result_measures[i] # <<>>
    /\ last_step.kind = "return" =>
           /\ Len(result_measures) >= 1
           /\ NeverOverflows(BucketEvents(NotesOfMeasure(all_notes, last_step.source),
                                          BeatsPerMeasure(time_signature)), ZeroLoads)
                  => Len(result_measures) = 1

\* the steps of distribute_events_with_measure_splitting: a measure is closed before a
\* bucket only when the bucket overflows, and then the bucket is the first event of a
\* new measure, with id counter 1, on loads of zero; after the last bucket the
\* non-empty current measure is appended and the result is returned
FlushStep ==
    /\ (pc = "distribute" /\ note_events # <<>> /\ result_measures' # result_measures) =>
           LET event == Head(note_events)
               emitted == current_measure_data'[1]
           IN  /\ BucketOverflows(event, current_clef_loads)
               /\ current_measure_data # <<>>
               /\ result_measures' = Append(result_measures, current_measure_data)
               /\ Len(current_measure_data') = 1
               /\ emitted.id = IdString(current_measure_idx', 1)
               /\ note_id_counter' = 2
               /\ current_clef_loads' =
                      [ZeroLoads EXCEPT ![emitted.clef] = DurationBeats(emitted.duration)]
    /\ (pc = "distribute" /\ note_events = <<>>) =>
           /\ current_measure_data # <<>>
           /\ result_measures' = Append(result_measures, current_measure_data)
           /\ measures' = measures \o result_measures'

\* C24: a flush happens only on overflow, the new measure starts with both loads at 0
\* and the id counter at 1, the non-empty remainder is always appended after the last
\* bucket; a non-empty source measure in which no bucket overflows gives exactly one
\* output measure, and no returned output measure is empty.
C24_FlushOnlyOnOverflow == []FlushState /\ [][FlushStep]_vars

\* C24's case: a bucket overflowed, the measure was closed, and the remainder was
\* appended after the last bucket: two measures were returned for one source measure
C24_Witness ==
    /\ last_step.kind = "return"
    /\ Len(result_measures) = 2
    /\ ~NeverOverflows(BucketEvents(NotesOfMeasure(all_notes, last_step.source),
                                    BeatsPerMeasure(time_signature)), ZeroLoads)

\* C25: the k-th (from 0) output measure of source measure m has events with measure
\* field m + k and id 'converted-(m+k)-j', j counting the events of that output measure
\* from 1 in emission order; the ids within an output measure are pairwise distinct.
\* So it is of the measures returned for a source measure, and of the closed measures
\* and the current one while the buckets are distributed.
C25_SequentialNumbering ==
    /\ (pc = "distribute" \/ last_step.kind = "return") =>
           \A k \in 1..Len(result_measures) : \A j \in 1..Len(result_measures[k]) :
               LET m == IF last_step.kind = "return" THEN last_step.source ELSE measure_idx
               IN  /\ result_measures[k][j].measure = m + k - 1
                   /\ result_measures[k][j].id = IdString(m + k - 1, j)
                   /\ \A i \in 1..Len(result_measures[k]) :
                          i # j => result_measures[k][i].id # result_measures[k][j].id
    /\ pc = "distribute" =>
           \A j \in 1..Len(current_measure_data) :
               /\ current_measure_idx = measure_idx + Len(result_measures)
               /\ current_measure_data[j].measure = measure_idx + Len(result_measures)
               /\ current_measure_data[j].id
                      = IdString(measure_idx + Len(result_measures), j)
               /\ note_id_counter = Len(current_measure_data) + 1

\* C25's case: source measure 2 was split in two output measures, numbered 2 and 3
C25_Witness ==
    /\ last_step.kind = "return"
    /\ last_step.source = 2
    /\ Len(result_measures) = 2
    /\ Len(result_measures[1]) = 1
    /\ result_measures[1][1].id = IdString(2, 1)
    /\ result_measures[2][1].measure = 3
    /\ result_measures[2][1].id = IdString(3, 1)

\* the pitches an event names, read from its name
NamedPitches(event) ==
    [i \in 1..Len(event.name.toks) |-> note_name_to_number(event.name.toks[i])]

\* the quantized note of all_notes that came from an input note
NoteFrom(src) == all_notes[CHOOSE i \in 1..Len(all_notes) : all_notes[i].src = src]

\* the order of the claim: ascending quantized start, then ascending quantized duration
QuantizedBefore(a, b) ==
    \/ a.start_time < b.start_time
    \/ a.start_time = b.start_time /\ a.duration_beats < b.duration_beats

\* the order of the buckets: ascending start rounded to a hundredth of a second, then
\* ascending duration rounded to a hundredth of a beat
BucketBefore(a, b) ==
    \/ StartKey(a) < StartKey(b)
    \/ StartKey(a) = StartKey(b) /\ DurationKey(a) < DurationKey(b)

\* no note of a source measure is dropped or named twice by the events returned for it
NotesConserved(source, events) ==
    LET notes == NotesOfMeasure(all_notes, source)
    IN  /\ SortedInts([i \in 1..Len(notes) |-> notes[i].midi_note])
               = SortedInts(Concat([e \in 1..Len(events) |-> NamedPitches(events[e])]))
        /\ UNION {events[e].src : e \in 1..Len(events)} = SourcesOf(notes)
        /\ \A e, f \in 1..Len(events) : e # f => events[e].src \cap events[f].src = {}
        /\ \A e \in 1..Len(events) :
               Len(events[e].name.toks) = Cardinality(events[e].src)

\* C26 (as claimed): for every source measure the multiset of pitches of its notes is
\* the multiset of pitches named by the events of the output measures produced for it,
\* no note is dropped or named by two events, and the events appear across the
\* concatenated output measures in ascending quantized start, then ascending quantized
\* duration.
C26_NoteConservationQuantized ==
    last_step.kind = "return" =>
        LET events == Concat(result_measures)
        IN  /\ NotesConserved(last_step.source, events)
            /\ \A e, f \in 1..Len(events) :
                   e < f => \A a \in events[e].src, b \in events[f].src :
                                QuantizedBefore(NoteFrom(a), NoteFrom(b))

\* C26 (amended): the same, the events appearing in the order of the buckets: ascending
\* start rounded to a hundredth of a second, then ascending duration rounded to a
\* hundredth of a beat.
C26_NoteConservation ==
    last_step.kind = "return" =>
        LET events == Concat(result_measures)
        IN  /\ NotesConserved(last_step.source, events)
            /\ \A e, f \in 1..Len(events) :
                   e < f => \A a \in events[e].src, b \in events[f].src :
                                BucketBefore(NoteFrom(a), NoteFrom(b))

\* C26's case: a source measure of three notes, a single note and a chord of two that
\* overflowed, was returned as two measures
C26_Witness ==
    /\ last_step.kind = "return"
    /\ Len(NotesOfMeasure(all_notes, last_step.source)) = 3
    /\ Len(result_measures) = 2
    /\ \E k \in 1..2 : Cardinality(result_measures[k][1].src) = 2

\* C27 (as claimed): in the document create_json_from_midi returns every event's measure
\* field is the position (from 0) of its measure in the measures list, so no two
\* measures carry the same index and no two events have the same id, also after a
\* source measure was split.  The code numbers the measures of a source measure from
\* the source measure's index, whatever the splits before it added.
C27_MeasureIndexIsPosition ==
    pc = "done" =>
        /\ \A i \in 1..Len(measures) : \A j \in 1..Len(measures[i]) :
               measures[i][j].measure = i - 1
        /\ \A i, k \in 1..Len(measures) : \A j \in 1..Len(measures[i]) :
               \A l \in 1..Len(measures[k]) :
                   <<i, j>> # <<k, l>> => measures[i][j].id # measures[k][l].id

\* C28 (as claimed): for every output measure of the reverse converter, whatever its
\* number of events (10 or more included), sorting its events by id as strings, which
\* is what process_measures does, gives the events in the order they were emitted.  The
\* counter of the id is not padded: 'converted-0-10' sorts before 'converted-0-2'.
C28_IdOrderIsEmissionOrder ==
    pc = "done" => \A i \in 1..Len(measures) : SortById(measures[i]) = measures[i]

\* the places <<measure, event>> of the events of a document
EventPlaces(doc) == UNION {{<<i, k>> : k \in 1..Len(doc[i])} : i \in 1..Len(doc)}

\* the pitches of the input notes an event names
PitchesOf(event) ==
    LET ids == SortedKeys(event.src)
    IN  [i \in 1..Len(ids) |-> pm_notes[ids[i]].pitch]

\* each input note is named by exactly one event of the document, and each event's name
\* is the codec's name of the pitches of its notes, sorted ascending
NamedOnceAndSorted ==
    /\ \A n \in 1..Len(pm_notes) :
           Cardinality({pl \in EventPlaces(measures) :
                           n \in measures[pl[1]][pl[2]].src}) = 1
    /\ \A pl \in EventPlaces(measures) :
           LET event == measures[pl[1]][pl[2]]
           IN  /\ event.src # {}
               /\ event.name = midi_notes_to_name(PitchesOf(event))

NamedTogether(a, b) ==
    \E pl \in EventPlaces(measures) : {a.src, b.src} \subseteq measures[pl[1]][pl[2]].src

\* C5 (as claimed): the notes of a source measure with the same quantized start and the
\* same quantized duration are one event, named by their spellings in ascending order,
\* and notes that differ in quantized start or quantized duration are never named by the
\* same event.
C5_ChordGroupingQuantized ==
    pc = "done" =>
        /\ NamedOnceAndSorted
        /\ \A i, j \in 1..Len(all_notes) :
               NamedTogether(all_notes[i], all_notes[j]) <=>
                   /\ all_notes[i].measure = all_notes[j].measure
                   /\ all_notes[i].start_time = all_notes[j].start_time
                   /\ all_notes[i].duration_beats = all_notes[j].duration_beats

\* C5 (amended): the notes of a source measure whose quantized starts round to the same
\* hundredth of a second and whose quantized durations round to the same hundredth of a
\* beat are one event, named by their spellings in ascending order, and notes that
\* differ in the rounded start or the rounded duration are never named by the same event.
C5_ChordGrouping ==
    pc = "done" =>
        /\ NamedOnceAndSorted
        /\ \A i, j \in 1..Len(all_notes) :
               NamedTogether(all_notes[i], all_notes[j]) <=>
                   /\ all_notes[i].measure = all_notes[j].measure
                   /\ StartKey(all_notes[i]) = StartKey(all_notes[j])
                   /\ DurationKey(all_notes[i]) = DurationKey(all_notes[j])

\* C5's case: three notes with the same start and duration are one chord event, and a
\* further document holds notes of one source measure in different events
C5_Witness ==
    /\ pc = "done"
    /\ \E pl \in EventPlaces(measures) :
           /\ Cardinality(measures[pl[1]][pl[2]].src) = 3
           /\ measures[pl[1]][pl[2]].name.paren
           /\ Len(measures[pl[1]][pl[2]].name.toks) = 3

-----------------------------------------------------------------------------
(* The claims: the round trip (Spec) *)

\* the notes a conversion returned, of both staves
EmittedNotes == notes_by_clef.treble \o notes_by_clef.bass

\* a timed input of the round-trip claim: 4/4, every note on the quantization grid,
\* of a length of the duration table, inside one measure, no two notes sounding
\* together, all on the stave their pitch defaults to
RoundTripInput ==
    /\ pm_notes # <<>>
    /\ time_signature = [numerator |-> 4, denominator |-> 4]
    /\ \A i \in 1..Len(pm_notes) :
           LET note == pm_notes[i]
           IN  /\ quantize_time(note.start, quantize_resolution, tempo) = note.start
               /\ quantize_time(note.end, quantize_resolution, tempo) = note.end
               /\ \E k \in 1..Len(DURATION_TO_BEATS) :
                      beats_to_seconds(DURATION_TO_BEATS[k][2], tempo) = note.end - note.start
               /\ note.start \div MeasureDurationSeconds(tempo)
                      = (note.end - 1) \div MeasureDurationSeconds(tempo)
    /\ \A i, j \in 1..Len(pm_notes) :
           i < j => \/ pm_notes[i].end <= pm_notes[j].start
                    \/ pm_notes[j].end <= pm_notes[i].start
    /\ \E clef \in Clefs :
           \A i \in 1..Len(pm_notes) : determine_clef(pm_notes[i].pitch) = clef

\* C4 (as claimed): timed -> symbolic -> timed gives back every note of such an input
\* with its pitch, its start and its end, also the notes that silence precedes in their
\* measure.  The reverse converter writes no rests, so the note is regenerated at the
\* start of its measure.
C4_RoundTripTiming ==
    (pc = "fwd_done" /\ RoundTripInput) =>
        {<<EmittedNotes[i].midi_note, EmittedNotes[i].start_time, EmittedNotes[i].end_time>> :
            i \in 1..Len(EmittedNotes)}
        = {<<pm_notes[i].pitch, pm_notes[i].start, pm_notes[i].end>> : i \in 1..Len(pm_notes)}

-----------------------------------------------------------------------------
(* The claims: the forward converter (SpecForward) *)

\* an event the forward converter takes a duration from: a rest or a name that parses
Counted(event) == event.isRest \/ parse_note_name(event.name).ok

\* the pitches of an event that emits notes
EventPitches(event) ==
    IF ~event.isRest /\ parse_note_name(event.name).ok
    THEN parse_note_name(event.name).notes ELSE <<>>

\* the beats of the first k events of a sorted measure that are on a stave
RECURSIVE EarlierBeats(_, _, _)
EarlierBeats(sorted, k, clef) ==
    IF k = 0 THEN 0
    ELSE (IF sorted[k].clef = clef THEN DurationBeats(sorted[k].duration) ELSE 0)
         + EarlierBeats(sorted, k - 1, clef)

\* the same, of the rests and the events whose names parse
RECURSIVE EarlierCountedBeats(_, _, _)
EarlierCountedBeats(sorted, k, clef) ==
    IF k = 0 THEN 0
    ELSE (IF sorted[k].clef = clef /\ Counted(sorted[k])
          THEN DurationBeats(sorted[k].duration) ELSE 0)
         + EarlierCountedBeats(sorted, k - 1, clef)

\* the number of pitches of the first k events of a sorted measure
RECURSIVE EarlierPitches(_, _)
EarlierPitches(sorted, k) ==
    IF k = 0 THEN 0 ELSE Len(EventPitches(sorted[k])) + EarlierPitches(sorted, k - 1)

\* the number of pitches of the first n measures of a document
RECURSIVE PitchesOfMeasures(_, _)
PitchesOfMeasures(doc, n) ==
    IF n = 0 THEN 0
    ELSE EarlierPitches(doc[n], Len(doc[n])) + PitchesOfMeasures(doc, n - 1)

\* C6 (as claimed): every emitted note of measure m on stave c starts at
\* m * measure duration + cursor_c * 60/tempo and ends durationBeats * 60/tempo later,
\* where cursor_c is the sum of the durations of the earlier events (notes and rests, in
\* id order) of stave c in the measure; the cursors are 0 at the start of a measure;
\* every pitch of a chord gets the same start and end; a quarter lasts 0.5 s at tempo
\* 120 and 1.0 s at tempo 60.  An earlier event whose name does not parse is not counted
\* by the code.
C6_ForwardTiming ==
    /\ (pc = "fwd_note" /\ Len(measure_notes) = Len(measures[measure_idx + 1]))
           => clef_positions = ZeroLoads
    /\ \A c \in Clefs : \A i \in 1..Len(notes_by_clef[c]) :
           LET info == notes_by_clef[c][i]
               m == info.at[1]
               sorted == SortById(measures[m + 1])
               event == sorted[info.at[2]]
               cursor == EarlierBeats(sorted, info.at[2] - 1, c)
           IN  /\ event.clef = c
               /\ info.start_time = m * beats_to_seconds(measure_duration_beats, tempo)
                                    + beats_to_seconds(cursor, tempo)
               /\ info.end_time = info.start_time
                                  + beats_to_seconds(DurationBeats(event.duration), tempo)
               /\ event.duration = "q" =>
                      info.end_time - info.start_time
                          = (IF tempo = 120 THEN SecUnit \div 2 ELSE SecUnit)

\* C7: a rest emits no note and advances the cursor of its own stave only: while a
\* measure is processed each cursor is the sum of the beats of the processed rests and
\* parsed events of its stave, no emitted note comes from a rest, and the notes emitted
\* so far are as many as the pitches of the processed non-rest events whose names parse;
\* when the conversion returns, the notes are as many as those pitches in the document.
C7_RestSkip ==
    /\ \A i \in 1..Len(EmittedNotes) :
           ~SortById(measures[EmittedNotes[i].at[1] + 1])[EmittedNotes[i].at[2]].isRest
    /\ pc = "fwd_note" /\ pm_notes = <<>> =>
           LET sorted == SortById(measures[measure_idx + 1])
               k == Len(sorted) - Len(measure_notes)
           IN  /\ \A c \in Clefs : clef_positions[c] = EarlierCountedBeats(sorted, k, c)
               /\ Len(EmittedNotes)
                      = PitchesOfMeasures(measures, measure_idx) + EarlierPitches(sorted, k)
    /\ pc = "fwd_done" /\ pm_notes = <<>> =>
           Len(EmittedNotes) = PitchesOfMeasures(measures, Len(measures))

\* C7's case: a quarter rest and then a quarter C4 on the treble stave gave exactly one
\* note, half a second after the start of the measure at tempo 120
C7_Witness ==
    /\ pc = "fwd_done"
    /\ tempo = 120
    /\ measures = << <<InputEvent(1, <<97>>, 0), InputEvent(3, <<98>>, 0)>> >>
    /\ Len(EmittedNotes) = 1
    /\ EmittedNotes[1].midi_note = 60
    /\ EmittedNotes[1].start_time = SecUnit \div 2
    /\ clef_positions = [treble |-> 2 * BeatUnit, bass |-> 0]

\* the pitches of the notes emitted for the event at a place of a measure
EmittedFor(m, k) ==
    LET From(info) == info.at = <<m, k>>
        infos == SelectSeq(EmittedNotes, From)
    IN  [i \in 1..Len(infos) |-> infos[i].midi_note]

\* C15: an event whose name cannot be parsed emits no note and does not abort the
\* conversion: nothing is raised, no emitted note comes from such an event, and when the
\* conversion returns every other non-rest event of the document has emitted exactly
\* its pitches, on its stave.
C15_MalformedAbsorbed ==
    pm_notes = <<>> =>
        /\ raised = "" /\ pc # "raised"
        /\ \A c \in Clefs : \A i \in 1..Len(notes_by_clef[c]) :
               LET info == notes_by_clef[c][i]
                   event == SortById(measures[info.at[1] + 1])[info.at[2]]
               IN  parse_note_name(event.name).ok /\ event.clef = c
        /\ pc = "fwd_done" =>
               \A m \in 1..Len(measures) : \A k \in 1..Len(measures[m]) :
                   LET event == SortById(measures[m])[k]
                   IN  EmittedFor(m - 1, k) =
                           (IF ~event.isRest /\ parse_note_name(event.name).ok
                            THEN parse_note_name(event.name).notes ELSE <<>>)

\* C15's case: "H4" and then "C4" in a measure: the conversion returned, with the one
\* note of "C4"
C15_Witness ==
    /\ pc = "fwd_done"
    /\ measures = << <<InputEvent(6, <<97>>, 0), InputEvent(3, <<98>>, 0)>> >>
    /\ Len(EmittedNotes) = 1
    /\ EmittedNotes[1].midi_note = 60
    /\ raised = ""

DistinctIds(measure) ==
    \A i, j \in 1..Len(measure) : i # j => measure[i].id # measure[j].id

\* the beats of the rests and parsed events of a stave whose ids are before an id: a sum
\* over the events of the measure, whatever their order in the list
RECURSIVE BeatsBeforeId(_, _, _)
BeatsBeforeId(measure, id, clef) ==
    IF measure = <<>> THEN 0
    ELSE (IF /\ Head(measure).clef = clef
             /\ Counted(Head(measure))
             /\ StrLess(Head(measure).id, id)
          THEN DurationBeats(Head(measure).duration) ELSE 0)
         + BeatsBeforeId(Tail(measure), id, clef)

WithId(measure, id) == LET Has(e) == e.id = id IN SelectSeq(measure, Has)

\* C29: for a measure whose events have pairwise distinct ids the timed notes depend on
\* the events and not on their order in the list: every emitted note has the pitch and
\* stave of the event with its id and starts after the beats of the events of its stave
\* with smaller ids, and every event that parses has emitted its pitches; events with
\* equal ids are processed in their input order.
C29_OrderIndependent ==
    /\ \A c \in Clefs : \A i \in 1..Len(notes_by_clef[c]) :
           LET info == notes_by_clef[c][i]
               m == info.at[1]
               measure == measures[m + 1]
           IN  (pm_notes = <<>> /\ DistinctIds(measure)) =>
                   \E k \in 1..Len(measure) :
                       /\ measure[k].id = info.original_data
                       /\ measure[k].clef = c
                       /\ \E p \in 1..Len(EventPitches(measure[k])) :
                              EventPitches(measure[k])[p] = info.midi_note
                       /\ info.start_time =
                              m * beats_to_seconds(measure_duration_beats, tempo)
                              + beats_to_seconds(BeatsBeforeId(measure, measure[k].id, c),
                                                 tempo)
                       /\ info.end_time =
                              info.start_time
                              + beats_to_seconds(DurationBeats(measure[k].duration), tempo)
    /\ (pc = "fwd_done" /\ pm_notes = <<>>) =>
           \A m \in 1..Len(measures) : \A k \in 1..Len(measures[m]) :
               DistinctIds(measures[m]) =>
                   {EventPitches(measures[m][k])[p] : p \in 1..Len(EventPitches(measures[m][k]))}
                   = {EmittedNotes[i].midi_note :
                         i \in {j \in 1..Len(EmittedNotes) :
                                   /\ EmittedNotes[j].at[1] = m - 1
                                   /\ EmittedNotes[j].original_data = measures[m][k].id}}
    /\ (pc = "fwd_note" /\ pm_notes = <<>>
          /\ Len(measure_notes) = Len(measures[measure_idx + 1])) =>
           /\ \A k \in 1..(Len(measure_notes) - 1) :
                  ~StrLess(measure_notes[k + 1].id, measure_notes[k].id)
           /\ \A k \in 1..Len(measure_notes) :
                  WithId(measure_notes, measure_notes[k].id)
                      = WithId(measures[measure_idx + 1], measure_notes[k].id)

\* C29's case: a measure lists "C4" with id "b" before "G#4" with id "a", both on the
\* treble stave: the note of "a" starts the measure and the note of "b" follows it
C29_Witness ==
    /\ pc = "fwd_done"
    /\ tempo = 120
    /\ measures = << <<InputEvent(3, <<98>>, 0), InputEvent(5, <<97>>, 0)>> >>
    /\ Len(notes_by_clef.treble) = 2
    /\ notes_by_clef.treble[1].midi_note = 68
    /\ notes_by_clef.treble[1].start_time = 0
    /\ notes_by_clef.treble[2].midi_note = 60
    /\ notes_by_clef.treble[2].start_time = SecUnit \div 2

-----------------------------------------------------------------------------
(* The claims: invalid input and channels (Spec, SpecMulti) *)

\* what holds of every state when invalid input is fatal
InvalidInputState ==
    /\ pc = "raised" <=> raised # ""
    /\ raised = "No JSON data provided" =>
           json_files_data = <<>> /\ channels = <<>> /\ used_channels = {}
    /\ raised = "MIDI file contains no instruments" =>
           pm_instruments = 0 /\ measures = <<>> /\ all_notes = <<>>
    /\ pc \in {"measure", "distribute", "done"} => pm_instruments >= 1
    /\ pc = "multi_done" => json_files_data # <<>>
    /\ pm_instruments >= 1 => raised = ""

\* the step invalid input takes is the raise
InvalidInputStep ==
    /\ (pc = "load" /\ pm_instruments = 0) =>
           pc' = "raised" /\ raised' = "MIDI file contains no instruments"
    /\ (pc = "multi" /\ json_files_data = <<>>) =>
           pc' = "raised" /\ raised' = "No JSON data provided"

\* C13: create_midi_from_multiple_json with an empty list of documents and
\* create_json_from_midi on a file with zero instruments raise an error and return no
\* output; a file with at least one instrument never raises for this reason.
C13_InvalidInputFatal == []InvalidInputState /\ [][InvalidInputStep]_vars

\* C13's case: a file without instruments was loaded and the conversion raised
C13_Witness ==
    /\ pc = "raised"
    /\ pm_instruments = 0
    /\ raised = "MIDI file contains no instruments"


\* the channels given to the parts before part i
EarlierChannels(i) == {channels[j] : j \in 1..(i - 1)}

\* C14 (as claimed): for parts (at most 16) whose requested channels are in 0..15,
\* every part gets a channel in 0..15, a part whose requested channel is still free
\* gets that channel, no two parts get the same channel, and a part is wrapped to a
\* channel below the one it requested only when all 16 channels are in use.  The code
\* wraps to channel 0 as soon as the search passes 15, whether or not 0 is free.
C14_ChannelsDistinct ==
    \A i \in 1..Len(channels) :
        LET requested_channel == RequestedChannel(json_files_data, i - 1)
        IN  /\ channels[i] \in 0..15
            /\ requested_channel \notin EarlierChannels(i) => channels[i] = requested_channel
            /\ channels[i] \notin EarlierChannels(i)
            /\ channels[i] < requested_channel => Cardinality(EarlierChannels(i)) = 16

=============================================================================
